---- MODULE Spec2Model ----
(***************************************************************************)
(* Model of the resilience layer of ariadng/sheets:                        *)
(*   - GoogleSheetsCore.withRetry / isRetryable   (src/src/core/client.ts) *)
(*   - GoogleSheetsError                          (src/src/core/errors.ts) *)
(*   - SimpleCache, withCache                     (src/src/plus/batch.ts)  *)
(*   - AdaptiveRateLimiter, TokenBucketRateLimiter                          *)
(*                                       (src/src/advanced/rate-limit.ts)  *)
(*   - MetricsCollector, withMetrics        (src/src/advanced/metrics.ts)  *)
(* JavaScript values are encoded as follows.  Codes (numbers and strings)  *)
(* are TLA+ strings: the number 429 is "429", the string '429' is          *)
(* "'429'", so that Array.includes' strict comparison is kept.  undefined  *)
(* is the string Undefined where a string is expected, and the empty       *)
(* sequence where an object is expected (<<x>> is "the object x").         *)
(* Cache keys are sequences of characters, "" being <<>>.  Time is the     *)
(* value of Date.now() in milliseconds.  Cell contents are named by the    *)
(* version of the cells ("v0", "v1", ...); successRate is kept in          *)
(* thousandths, rounded down; the token bucket holds thousandths of a      *)
(* token; quotients of the metrics collector are kept exact as num / den.  *)
(***************************************************************************)
EXTENDS Integers, Sequences, FiniteSets, TLC

VARIABLES
    retryConfig,    \* GoogleSheetsCore.retryConfig {maxAttempts, maxDelay, initialDelay}
    method,         \* the core operation whose fn is being run by withRetry
    pc,             \* position of the withRetry call
    attempt,        \* loop variable of withRetry
    lastError,      \* local lastError of withRetry (<<>> = undefined)
    wakeAt,         \* time at which the pending setTimeout is due
    result,         \* <<v>> once withRetry has returned v
    raised,         \* <<e>> once withRetry has thrown e
    inward,         \* transport side: number of inward calls fn() made so far
    rejected,       \* transport side: number of those calls that rejected
    thrown,         \* transport side: the raw failure of the latest rejection
    resolved,       \* transport side: the payload of the resolving call
    startedAt,      \* time at which the operation was invoked
    callStartedAt,  \* time at which the latest inward call started
    sleepFrom,      \* time at which the latest backoff suspension began
    lastDelay,      \* delay passed to the latest setTimeout
    now,            \* Date.now()
    rawInput,       \* argument handed to new GoogleSheetsError(...)
    classified,     \* <<e>> once the constructor has built e from rawInput
    userMessage,    \* <<s>> once classified.getUserMessage() has returned s
    cacheConfig,    \* SimpleCache.config {ttlSeconds, maxEntries}
    cache,          \* SimpleCache.cache: the Map, in insertion order
    lastOp,         \* the latest SimpleCache call and what it returned
    sheet,          \* remote side: version of the cells behind each id:range
    call,           \* per task: the call through the withCache client it is in
    callsStarted,   \* number of calls made through the withCache client
    committed,      \* per id:range, the newest version whose write has returned
    successRate,    \* AdaptiveRateLimiter.successRate, in thousandths
    baseDelay,      \* AdaptiveRateLimiter.baseDelay
    requestTimes,   \* AdaptiveRateLimiter.requestTimes
    exec,           \* per task: its position in AdaptiveRateLimiter.execute
    executes,       \* number of execute calls started
    streak,         \* successes completed since the latest rate-limit failure
    failures,       \* number of fn() rejections so far, by kind
    bucketConfig,   \* TokenBucketRateLimiter {maxTokens, refillRate}
    tokens,         \* TokenBucketRateLimiter.tokens, in thousandths of a token
    lastRefill,     \* TokenBucketRateLimiter.lastRefill
    acq,            \* per task: its position in acquire / the token-bucket client
    acquires,       \* number of acquire calls started
    peeked,         \* <<r>> right after getAvailableTokens() returned r
    inwardStarts,   \* times at which the token-bucket client called inward
    metrics,        \* MetricsCollector.metrics
    latencies,      \* MetricsCollector.latencies
    startTime,      \* MetricsCollector.startTime
    collectorOp,    \* the latest MetricsCollector call and what it returned
    recorded,       \* every recordRequest since construction or the last reset
    wrapped,        \* the call through the withMetrics client, if any
    wrappedCalls    \* number of calls made through the withMetrics client

retryVars == <<retryConfig, method, pc, attempt, lastError, wakeAt, result, raised,
               inward, rejected, thrown, resolved, startedAt, callStartedAt,
               sleepFrom, lastDelay>>
classifyVars == <<rawInput, classified, userMessage>>
cacheVars == <<cacheConfig, cache, lastOp>>
decoratorVars == <<sheet, call, callsStarted, committed>>
limiterVars == <<successRate, baseDelay, requestTimes, exec, executes, streak,
                 failures>>
bucketVars == <<bucketConfig, tokens, lastRefill, acq, acquires, peeked,
               inwardStarts>>
collectorVars == <<metrics, latencies, startTime, collectorOp, recorded>>
wrapperVars == <<wrapped, wrappedCalls>>
metricsVars == <<collectorVars, wrapperVars>>
vars == <<retryVars, classifyVars, cacheVars, decoratorVars, limiterVars,
          bucketVars, metricsVars, now>>

Undefined == "undefined"
Null == "null"

\* ------------------------------------------------------------------ bounds
MaxAttemptsBound == 3
MaxEntriesBound == 2
MaxNow == 2000
MaxCalls == 3
MaxExecutes == 106
MaxRateLimited == 6
MaxOtherFailures == 1
MaxBucketNow == 1500
MaxAcquires == 3
MaxFairNow == 8000
MaxVaried == 2
MaxRecords == 103
MaxRateLimitHits == 2
MaxWrappedCalls == 2
MaxPropagationCalls == 2

\* ----------------------------------------------------------- input domains
\* {initialDelay, maxDelay} pairs: the defaults, the spec's scenario, a low cap
DelayConfigs == { <<1000, 10000>>, <<10, 100>>, <<1000, 1500>> }
Operations == {"read", "write", "append", "clear", "batchRead", "batchWrite",
               "batchClear", "getSpreadsheet"}
Payloads == {"rowsA", "rowsB"}
Jitters == {0, 999}
CallDurations == {0, 3}
TimerLateness == {0, 2}

RawFailure(c, s, m, am) == [code |-> c, status |-> s, message |-> m, apiMessage |-> am]

\* failures the transport raises in the retry specification
TransportFailures ==
    { RawFailure("ECONNRESET", Undefined, "Network error", Undefined),
      RawFailure(Undefined, "429", "Rate limit", Undefined),
      RawFailure(Undefined, "500", "Server error", Undefined),
      RawFailure(Undefined, "403", "Permission denied", "denied by API"),
      RawFailure("404", "404", Undefined, Undefined),
      RawFailure("'429'", Undefined, Undefined, Undefined),
      RawFailure("ETIMEDOUT", "403", "timed out", Undefined),
      RawFailure("500", "404", Undefined, Undefined) }

\* failure shapes handed to the constructor in the classification specification
TopLevelCodes == {Undefined, "429", "500", "502", "503", "504", "ECONNRESET",
                  "ETIMEDOUT", "ENOTFOUND", "403", "404", "400", "EPIPE", "'429'"}
ResponseStatuses == {Undefined, "429", "500", "502", "503", "504", "403", "404"}
Messages == {Undefined, "Network error"}
RawFailures == { RawFailure(c, s, m, Undefined) :
                    c \in TopLevelCodes, s \in ResponseStatuses, m \in Messages }

\* ----------------------------------------------------------------- helpers
Min(a, b) == IF a < b THEN a ELSE b

RECURSIVE Pow2(_)
Pow2(n) == IF n <= 0 THEN 1 ELSE 2 * Pow2(n - 1)

\* a || b on code-like values (undefined is the only falsy one that occurs)
OrElse(a, b) == IF a # Undefined THEN a ELSE b

\* ------------------------------------------------------- GoogleSheetsError
RetryableCodesOfError == {"429", "500", "502", "503", "504",
                          "ECONNRESET", "ETIMEDOUT", "ENOTFOUND"}

GoogleSheetsErrorMissingCode(originalError) ==
    LET code == OrElse(originalError.status, originalError.code)
    IN  [ name |-> "GoogleSheetsError",
          message |-> OrElse(originalError.apiMessage,
                             OrElse(originalError.message, "Unknown error")),
          code |-> code,
          originalError |-> <<originalError>>,
          isRetryable |-> code \in (RetryableCodesOfError \ {"ENOTFOUND"}) ]

GoogleSheetsErrorSummary(originalError) ==
    LET code == OrElse(originalError.status, originalError.code)
    IN  [ name |-> "GoogleSheetsError",
          message |-> OrElse(originalError.apiMessage,
                             OrElse(originalError.message, "Unknown error")),
          code |-> code,
          originalError |-> << >>,
          isRetryable |-> code \in RetryableCodesOfError ]

\* new GoogleSheetsError(originalError), originalError an object
GoogleSheetsError(originalError) ==
    LET code == OrElse(originalError.status, originalError.code)
    IN  [ name |-> "GoogleSheetsError",
          message |-> OrElse(originalError.apiMessage,
                             OrElse(originalError.message, "Unknown error")),
          code |-> code,
          originalError |-> <<originalError>>,
          isRetryable |-> code \in RetryableCodesOfError ]

\* what reading originalError.response of undefined throws
TypeErrorOfUndefined ==
    [ name |-> "TypeError",
      message |-> "Cannot read properties of undefined",
      code |-> Undefined,
      originalError |-> << >>,
      isRetryable |-> FALSE ]

\* throw new GoogleSheetsError(e), e being <<>> (undefined) or <<object>>
ThrowGoogleSheetsError(e) ==
    IF e = << >> THEN TypeErrorOfUndefined ELSE GoogleSheetsError(e[1])

\* --------------------------------------------------------------- withRetry
isRetryableNumericOnly(error) ==
    \/ error.code \in {"429", "500", "502", "503", "504"}
    \/ error.status \in {"429", "500", "502", "503", "504"}

\* GoogleSheetsCore.isRetryable
isRetryable(error) ==
    \/ error.code \in {"429", "500", "502", "503", "504"}
    \/ error.status \in {"429", "500", "502", "503", "504"}
    \/ error.code \in {"ECONNRESET", "ETIMEDOUT", "ENOTFOUND"}

LoopContinuesInclusive(a) == a <= retryConfig.maxAttempts

\* the for loop's condition
LoopContinues(a) == a < retryConfig.maxAttempts

\* "last attempt" test of the catch block
IsLastAttempt(a) == a = retryConfig.maxAttempts - 1

BaseDelayUncapped(a) == retryConfig.initialDelay * Pow2(a)

\* baseDelay of the catch block
BaseDelay(a) == Min(retryConfig.initialDelay * Pow2(a), retryConfig.maxDelay)

RetryIdle ==
    /\ method = Undefined
    /\ pc = "idle"
    /\ attempt = 0
    /\ lastError = << >>
    /\ wakeAt = 0
    /\ result = << >>
    /\ raised = << >>
    /\ inward = 0
    /\ rejected = 0
    /\ thrown = << >>
    /\ resolved = << >>
    /\ startedAt = 0
    /\ callStartedAt = 0
    /\ sleepFrom = 0
    /\ lastDelay = 0

ClassifyIdle ==
    /\ rawInput = RawFailure(Undefined, Undefined, Undefined, Undefined)
    /\ classified = << >>
    /\ userMessage = << >>

CacheIdle ==
    /\ cacheConfig = [ttlSeconds |-> 60, maxEntries |-> 100]
    /\ cache = << >>
    /\ lastOp = [op |-> "new", key |-> << >>, ret |-> Null]

\* the tasks (async callers) that share one decorated client
Tasks == {1, 2}

CacheKeyWithoutId(id, range) == range

\* cache key of the decorator: `${spreadsheetId}:${range}`
CacheKey(id, range) == id \o <<":">> \o range

SheetIds == { <<"s">>, <<"x", "s">> }
Ranges == { <<"A">>, <<"$", "A">> }

\* a task that is not inside a call of the withCache client
NoCall == [op |-> "none", pc |-> "idle", id |-> << >>, range |-> << >>,
           ranges |-> << >>, inwardCalls |-> 0, inwardArgs |-> << >>,
           cachedResults |-> << >>, fetched |-> << >>, ret |-> << >>,
           floor |-> 0, wrote |-> 0,
           error |-> Undefined]

DecoratorIdle ==
    /\ sheet = [k \in { CacheKey(i, r) : i \in SheetIds, r \in Ranges } |-> 0]
    /\ call = [t \in Tasks |-> NoCall]
    /\ callsStarted = 0
    /\ committed = [k \in { CacheKey(i, r) : i \in SheetIds, r \in Ranges } |-> 0]

\* successRate = 1.0, in thousandths
FullRate == 1000

\* a task that is not inside execute
NoExec == [pc |-> "idle", wakeAt |-> 0, error |-> << >>]

\* state after new AdaptiveRateLimiter()
LimiterIdle ==
    /\ successRate = FullRate
    /\ baseDelay = 0
    /\ requestTimes = << >>
    /\ exec = [t \in Tasks |-> NoExec]
    /\ executes = 0
    /\ streak = 0
    /\ failures = [rateLimit |-> 0, other |-> 0]

\* the bucket holds thousandths of a token: one millisecond at refillRate 1
TokenUnit == 1000

\* a task that is neither inside acquire nor inside the token-bucket client
NoAcquire == [pc |-> "idle", id |-> 0, via |-> "none", n |-> 0, wakeAt |-> 0,
              waits |-> 0, error |-> << >>]

\* state after new TokenBucketRateLimiter()
BucketIdle ==
    /\ bucketConfig = [maxTokens |-> 100, refillRate |-> 1]
    /\ tokens = 100 * TokenUnit
    /\ lastRefill = now
    /\ acq = [t \in Tasks |-> NoAcquire]
    /\ acquires = 0
    /\ peeked = << >>
    /\ inwardStarts = << >>

\* a quotient kept exact: the number num / den
Quotient(num, den) == [num |-> num, den |-> den]

\* the metrics object of a new or reset MetricsCollector
NoMetrics == [totalRequests |-> 0, successfulRequests |-> 0, failedRequests |-> 0,
              retryCount |-> 0, averageLatency |-> Quotient(0, 1),
              rateLimitHits |-> 0, errorsByCode |-> << >>,
              requestsByMethod |-> << >>]

\* state after new MetricsCollector()
CollectorIdle ==
    /\ metrics = NoMetrics
    /\ latencies = << >>
    /\ startTime = now
    /\ collectorOp = [op |-> "new", ret |-> << >>]
    /\ recorded = << >>

\* no call through the withMetrics client is in progress
NoWrapped == [pc |-> "idle", method |-> "none", startTime |-> 0, retries |-> 0,
              lastError |-> << >>, wakeAt |-> 0, invocations |-> 0,
              transportCalls |-> 0, transportFailures |-> {}, delays |-> << >>,
              error |-> << >>, ret |-> << >>]

WrapperIdle ==
    /\ wrapped = NoWrapped
    /\ wrappedCalls = 0

\* state after new GoogleSheetsCore({auth, retryConfig})
InitRetry ==
    /\ \E m \in 0..MaxAttemptsBound, d \in DelayConfigs :
          retryConfig = [maxAttempts |-> m, initialDelay |-> d[1], maxDelay |-> d[2]]
    /\ RetryIdle
    /\ ClassifyIdle
    /\ CacheIdle
    /\ DecoratorIdle
    /\ LimiterIdle
    /\ now = 0
    /\ BucketIdle
    /\ CollectorIdle
    /\ WrapperIdle

\* a core operation is called: withRetry up to the first fn() or the final throw
Invoke(m) ==
    /\ pc = "idle"
    /\ method' = m
    /\ startedAt' = now
    /\ attempt' = 0
    /\ IF LoopContinues(0)
         THEN /\ pc' = "attempt"
              /\ raised' = raised
         ELSE /\ pc' = "raised"
              /\ raised' = <<ThrowGoogleSheetsError(lastError)>>
    /\ UNCHANGED <<retryConfig, lastError, wakeAt, result, inward, rejected, thrown,
                   resolved, callStartedAt, sleepFrom, lastDelay, now>>
    /\ UNCHANGED <<classifyVars, cacheVars, decoratorVars, limiterVars, bucketVars,
                 metricsVars>>

\* fn() resolves with payload v after dur ms: return await fn()
TransportResolves(v, dur) ==
    /\ pc = "attempt"
    /\ inward' = inward + 1
    /\ callStartedAt' = now
    /\ now' = now + dur
    /\ resolved' = <<v>>
    /\ result' = <<v>>
    /\ pc' = "returned"
    /\ UNCHANGED <<retryConfig, method, attempt, lastError, wakeAt, raised, rejected,
                   thrown, startedAt, sleepFrom, lastDelay>>
    /\ UNCHANGED <<classifyVars, cacheVars, decoratorVars, limiterVars, bucketVars,
                 metricsVars>>

\* fn() rejects with error after dur ms: the catch block, up to the throw or
\* the setTimeout
TransportRejects(error, dur, jitter) ==
    /\ pc = "attempt"
    /\ inward' = inward + 1
    /\ rejected' = rejected + 1
    /\ callStartedAt' = now
    /\ now' = now + dur
    /\ thrown' = <<error>>
    /\ lastError' = <<error>>
    /\ IF ~isRetryable(error) \/ IsLastAttempt(attempt)
         THEN /\ raised' = <<ThrowGoogleSheetsError(<<error>>)>>
              /\ pc' = "raised"
              /\ UNCHANGED <<wakeAt, sleepFrom, lastDelay>>
         ELSE /\ lastDelay' = BaseDelay(attempt) + jitter
              /\ sleepFrom' = now'
              /\ wakeAt' = now' + lastDelay'
              /\ pc' = "sleeping"
              /\ raised' = raised
    /\ UNCHANGED <<retryConfig, method, attempt, result, resolved, startedAt>>
    /\ UNCHANGED <<classifyVars, cacheVars, decoratorVars, limiterVars, bucketVars,
                 metricsVars>>

\* time at which a timer due at t runs its callback, late ms behind
TimerRunsAt(t, late) == t + late

\* the setTimeout callback runs: attempt++, the loop condition, and either the
\* next iteration or the throw after the loop
TimerFires(late) ==
    /\ pc = "sleeping"
    /\ now' = TimerRunsAt(wakeAt, late)
    /\ attempt' = attempt + 1
    /\ IF LoopContinues(attempt + 1)
         THEN /\ pc' = "attempt"
              /\ raised' = raised
         ELSE /\ pc' = "raised"
              /\ raised' = <<ThrowGoogleSheetsError(lastError)>>
    /\ UNCHANGED <<retryConfig, method, lastError, wakeAt, result, inward, rejected,
                   thrown, resolved, startedAt, callStartedAt, sleepFrom, lastDelay>>
    /\ UNCHANGED <<classifyVars, cacheVars, decoratorVars, limiterVars, bucketVars,
                 metricsVars>>

NextRetry ==
    \/ \E m \in Operations : Invoke(m)
    \/ \E v \in Payloads, dur \in CallDurations : TransportResolves(v, dur)
    \/ \E e \in TransportFailures, dur \in CallDurations, j \in Jitters :
          TransportRejects(e, dur, j)
    \/ \E late \in TimerLateness : TimerFires(late)

RetrySpec == InitRetry /\ [][NextRetry]_vars

\* ------------------------------------------- classification specification
InitClassify ==
    /\ rawInput \in RawFailures
    /\ classified = << >>
    /\ userMessage = << >>
    /\ retryConfig = [maxAttempts |-> 3, initialDelay |-> 1000, maxDelay |-> 10000]
    /\ RetryIdle
    /\ CacheIdle
    /\ DecoratorIdle
    /\ LimiterIdle
    /\ now = 0
    /\ BucketIdle
    /\ CollectorIdle
    /\ WrapperIdle

\* new GoogleSheetsError(rawInput)
Construct ==
    /\ classified = << >>
    /\ classified' = <<ThrowGoogleSheetsError(<<rawInput>>)>>
    /\ UNCHANGED <<rawInput, userMessage, retryVars, cacheVars, decoratorVars,
                   limiterVars, now, bucketVars, metricsVars>>

\* GoogleSheetsError.isPermissionError
isPermissionError(e) == e.code = "403"

\* GoogleSheetsError.isRateLimitError
isRateLimitError(e) == e.code = "429"

\* GoogleSheetsError.isNotFoundError
isNotFoundError(e) == e.code = "404"

\* GoogleSheetsError.getUserMessage
getUserMessage(e) ==
    IF isPermissionError(e)
      THEN "Permission denied. Please ensure the spreadsheet is shared with the service account or you have proper OAuth permissions."
    ELSE IF isRateLimitError(e)
      THEN "Rate limit exceeded. Please wait before making more requests."
    ELSE IF isNotFoundError(e)
      THEN "Spreadsheet or range not found. Please check the ID and range are correct."
    ELSE e.message

\* classified.getUserMessage() is called
GetUserMessage ==
    /\ classified # << >>
    /\ userMessage = << >>
    /\ userMessage' = << getUserMessage(classified[1]) >>
    /\ UNCHANGED <<rawInput, classified, retryVars, cacheVars, decoratorVars,
                   limiterVars, now, bucketVars, metricsVars>>

NextClassify ==
    \/ Construct
    \/ GetUserMessage

ClassifySpec == InitClassify /\ [][NextClassify]_vars

\* ------------------------------------------------------------- SimpleCache
CacheKeys == { << >>, <<"a">>, <<"b", "a">> }
CacheValues == {"v1", "v2"}
\* ttlOverride argument of set: << >> when omitted, <<n>> for n seconds
TtlOverrides == { << >>, <<2>> }
TtlSecondsChoices == {1}
\* pattern argument of invalidate: << >> when omitted (or '')
InvalidatePatterns == { << >>, <<"a", "*">>, <<"b">>, <<"*", "*">> }
ClockSteps == {1000}

\* Map.has / Map.get / Map.delete / Map.set on the insertion-ordered Map
MapHas(m, k) == \E i \in 1..Len(m) : m[i].key = k
MapGet(m, k) == m[CHOOSE i \in 1..Len(m) : m[i].key = k]
MapDelete(m, k) == SelectSeq(m, LAMBDA e : e.key # k)
MapSet(m, k, v, x) ==
    IF MapHas(m, k)
      THEN [i \in 1..Len(m) |->
               IF m[i].key = k THEN [key |-> k, value |-> v, expiry |-> x] ELSE m[i]]
      ELSE Append(m, [key |-> k, value |-> v, expiry |-> x])

\* SimpleCache.size()
size == Len(cache)

IsStaleInclusive(entry, t) == t >= entry.expiry

\* the expiry test of get
IsStale(entry, t) == t > entry.expiry

\* value returned by get(k) at time t
GetReturn(m, k, t) ==
    IF ~MapHas(m, k) THEN Null
    ELSE IF IsStale(MapGet(m, k), t) THEN Null
    ELSE MapGet(m, k).value

\* the Map after get(k) at time t
GetEffect(m, k, t) ==
    IF MapHas(m, k) /\ IsStale(MapGet(m, k), t) THEN MapDelete(m, k) ELSE m

\* SimpleCache.get(key)
Get(k) ==
    /\ lastOp' = [op |-> "get", key |-> k, ret |-> GetReturn(cache, k, now)]
    /\ cache' = GetEffect(cache, k, now)
    /\ UNCHANGED <<cacheConfig, now, retryVars, classifyVars, decoratorVars, limiterVars,
                 bucketVars, metricsVars>>

\* truthiness of a string: if (firstKey)
Truthy(key) == key # << >>

\* the Map after the capacity check of set
EvictOldest(m) ==
    IF Len(m) >= cacheConfig.maxEntries
      THEN IF m # << >> /\ Truthy(m[1].key) THEN MapDelete(m, m[1].key) ELSE m
      ELSE m

\* ttlOverride ?? config.ttlSeconds
TtlOf(ttlOverride) ==
    IF ttlOverride # << >> THEN ttlOverride[1] ELSE cacheConfig.ttlSeconds

\* the Map after set(k, v, ttlOverride) at time t
SetEffect(m, k, v, ttlOverride, t) ==
    MapSet(EvictOldest(m), k, v, t + TtlOf(ttlOverride) * 1000)

\* SimpleCache.set(key, value, ttlOverride?)
Set(k, v, ttlOverride) ==
    /\ cache' = SetEffect(cache, k, v, ttlOverride, now)
    /\ lastOp' = [op |-> "set", key |-> k, ret |-> Null]
    /\ UNCHANGED <<cacheConfig, now, retryVars, classifyVars, decoratorVars, limiterVars,
                 bucketVars, metricsVars>>

\* pattern.replace('*', '.*'): only the first '*' is replaced
RECURSIVE ReplaceFirstStar(_)
ReplaceFirstStar(p) ==
    IF p = << >> THEN << >>
    ELSE IF p[1] = "*" THEN <<".", "*">> \o Tail(p)
    ELSE <<p[1]>> \o ReplaceFirstStar(Tail(p))

\* new RegExp(re) throws a SyntaxError on a quantifier with nothing to repeat
RegexValid(re) ==
    \A i \in 1..Len(re) : re[i] = "*" => (i > 1 /\ re[i - 1] \notin {"*", "$"})

\* re matches a prefix of s (literals, '.', the postfix quantifier '*', and
\* '$', which holds only at the end of the input)
RECURSIVE MatchHere(_, _)
MatchHere(re, s) ==
    IF re = << >> THEN TRUE
    ELSE IF re[1] = "$" THEN s = << >> /\ MatchHere(Tail(re), s)
    ELSE IF Len(re) >= 2 /\ re[2] = "*"
      THEN \E n \in 0..Len(s) :
              /\ \A i \in 1..n : re[1] = "." \/ s[i] = re[1]
              /\ MatchHere(SubSeq(re, 3, Len(re)), SubSeq(s, n + 1, Len(s)))
    ELSE /\ s # << >>
         /\ (re[1] = "." \/ re[1] = s[1])
         /\ MatchHere(Tail(re), Tail(s))

\* regex.test(key): an unanchored search
RegexTest(re, key) ==
    \E i \in 1..(Len(key) + 1) : MatchHere(re, SubSeq(key, i, Len(key)))

\* invalidate(pattern) throws: new RegExp rejects the rewritten pattern
InvalidateThrows(pattern) ==
    pattern # << >> /\ ~RegexValid(ReplaceFirstStar(pattern))

\* the Map after invalidate(pattern)
InvalidateEffect(m, pattern) ==
    IF pattern = << >> THEN << >>
    ELSE IF InvalidateThrows(pattern) THEN m
    ELSE SelectSeq(m, LAMBDA e : ~RegexTest(ReplaceFirstStar(pattern), e.key))

\* SimpleCache.invalidate(pattern?)
Invalidate(pattern) ==
    /\ cache' = InvalidateEffect(cache, pattern)
    /\ lastOp' = [op |-> "invalidate", key |-> pattern,
                  ret |-> IF InvalidateThrows(pattern) THEN "SyntaxError" ELSE Null]
    /\ UNCHANGED <<cacheConfig, now, retryVars, classifyVars, decoratorVars, limiterVars,
                 bucketVars, metricsVars>>

\* SimpleCache.clear()
Clear ==
    /\ cache' = << >>
    /\ lastOp' = [op |-> "clear", key |-> << >>, ret |-> Null]
    /\ UNCHANGED <<cacheConfig, now, retryVars, classifyVars, decoratorVars, limiterVars,
                 bucketVars, metricsVars>>

\* Date.now() advances
Tick(dt) ==
    /\ now + dt <= MaxNow
    /\ now' = now + dt
    /\ UNCHANGED <<cacheVars, retryVars, classifyVars, decoratorVars, limiterVars,
                 bucketVars, metricsVars>>

\* state after new SimpleCache({ttlSeconds, maxEntries})
InitCache ==
    /\ \E t \in TtlSecondsChoices, n \in 0..MaxEntriesBound :
          cacheConfig = [ttlSeconds |-> t, maxEntries |-> n]
    /\ cache = << >>
    /\ lastOp = [op |-> "new", key |-> << >>, ret |-> Null]
    /\ now = 0
    /\ retryConfig = [maxAttempts |-> 3, initialDelay |-> 1000, maxDelay |-> 10000]
    /\ RetryIdle
    /\ ClassifyIdle
    /\ DecoratorIdle
    /\ LimiterIdle
    /\ BucketIdle
    /\ CollectorIdle
    /\ WrapperIdle

NextCache ==
    \/ \E k \in CacheKeys : Get(k)
    \/ \E k \in CacheKeys, v \in CacheValues, o \in TtlOverrides : Set(k, v, o)
    \/ \E p \in InvalidatePatterns : Invalidate(p)
    \/ Clear
    \/ \E dt \in ClockSteps : Tick(dt)

CacheSpec == InitCache /\ [][NextCache]_vars

\* ------------------------------------------------ withCache specification
\* withCache(client, config): the wrapped read, batchRead, write, append and
\* clear.  Every inward call is awaited: the remote side serves it at one moment
\* and the wrapped method resumes at a later one, so calls of different tasks
\* interleave at the awaits.
RangeLists == { << <<"A">>, <<"$", "A">> >>, << <<"$", "A">>, <<"A">> >> }
DecoratorCapacities == {2}
\* spreadsheets that are batch-read, written, appended to and cleared
UpdatedIds == { <<"s">> }
AppendRanges == { <<"A">> }
DecoratorClockSteps == {2000}

\* the values held by the cells at version n
VersionNames == <<"v0", "v1", "v2", "v3", "v4", "v5">>
Content(n) == VersionNames[n + 1]
VersionOf(v) == CHOOSE n \in 0..(Len(VersionNames) - 1) : VersionNames[n + 1] = v

\* the range field of the ValueRanges an inward batchRead resolves with: the
\* requested string, or the sheet-qualified form of it
RangeEchoes == {"asRequested", "qualified"}
ResultRange(echo, range) ==
    IF echo = "asRequested" THEN range ELSE <<"S", "!">> \o range

Max(a, b) == IF a >= b THEN a ELSE b

\* a task may enter a wrapped method
CanBegin(t) ==
    /\ call[t].pc \in {"idle", "returned", "raised"}
    /\ callsStarted < MaxCalls

\* wrappedClient.read up to its return (hit) or its await (miss)
WrappedRead(t, id, range) ==
    LET cacheKey == CacheKey(id, range)
        cached == GetReturn(cache, cacheKey, now)
    IN  /\ CanBegin(t)
        /\ callsStarted' = callsStarted + 1
        /\ cache' = GetEffect(cache, cacheKey, now)
        /\ call' = [call EXCEPT ![t] =
              IF cached # Null
                THEN [NoCall EXCEPT !.op = "read", !.pc = "returned", !.id = id,
                                    !.range = range, !.ret = <<cached>>,
                                    !.floor = committed[cacheKey]]
                ELSE [NoCall EXCEPT !.op = "read", !.pc = "awaiting", !.id = id,
                                    !.range = range, !.inwardCalls = 1,
                                    !.inwardArgs = <<range>>,
                                    !.floor = committed[cacheKey]]]
        /\ UNCHANGED <<sheet, committed, cacheConfig, lastOp, now>>
        /\ UNCHANGED <<retryVars, classifyVars, limiterVars, bucketVars, metricsVars>>

\* the remote side serves the inward read of task t
TransportServesRead(t) ==
    /\ call[t].pc = "awaiting"
    /\ call[t].op = "read"
    /\ call' = [call EXCEPT ![t].pc = "resumable",
                            ![t].fetched =
                                <<Content(sheet[CacheKey(call[t].id, call[t].range)])>>]
    /\ UNCHANGED <<sheet, callsStarted, committed, cacheVars, now>>
    /\ UNCHANGED <<retryVars, classifyVars, limiterVars, bucketVars, metricsVars>>

\* wrappedClient.read after the await: cache.set(cacheKey, result); return result
WrappedReadResumes(t) ==
    /\ call[t].pc = "resumable"
    /\ call[t].op = "read"
    /\ cache' = SetEffect(cache, CacheKey(call[t].id, call[t].range),
                          call[t].fetched[1], << >>, now)
    /\ call' = [call EXCEPT ![t].pc = "returned", ![t].ret = call[t].fetched]
    /\ UNCHANGED <<sheet, callsStarted, committed, cacheConfig, lastOp, now>>
    /\ UNCHANGED <<retryVars, classifyVars, limiterVars, bucketVars, metricsVars>>

\* the Map after cache.get of every requested range, in order
RECURSIVE GetEach(_, _, _, _)
GetEach(m, id, ranges, t) ==
    IF ranges = << >> THEN m
    ELSE GetEach(GetEffect(m, CacheKey(id, ranges[1]), t), id, Tail(ranges), t)

\* cachedResults: {range, values} of the requested ranges found in the cache
CachedResults(m, id, ranges, t) ==
    LET hits == SelectSeq(ranges, LAMBDA r : GetReturn(m, CacheKey(id, r), t) # Null)
    IN  [i \in 1..Len(hits) |->
            [range |-> hits[i], values |-> GetReturn(m, CacheKey(id, hits[i]), t)]]

UncachedRangesAll(m, id, ranges, t) == ranges

\* uncachedRanges: the requested ranges not found in the cache, in request order
UncachedRanges(m, id, ranges, t) ==
    SelectSeq(ranges, LAMBDA r : GetReturn(m, CacheKey(id, r), t) = Null)

\* the first element of results whose range is r, as << >> or <<element>>
Find(results, range) ==
    LET hits == SelectSeq(results, LAMBDA r : r.range = range)
    IN  IF hits = << >> THEN << >> ELSE <<hits[1]>>

\* "Combine cached and fresh results in original order"
RECURSIVE Combine(_, _, _)
Combine(ranges, cachedResults, freshResults) ==
    IF ranges = << >> THEN << >>
    ELSE (IF Find(cachedResults, ranges[1]) # << >>
            THEN Find(cachedResults, ranges[1])
            ELSE Find(freshResults, ranges[1]))
         \o Combine(Tail(ranges), cachedResults, freshResults)

\* the Map after the loop "Cache fresh results"
RECURSIVE StoreFresh(_, _, _, _)
StoreFresh(m, id, freshResults, t) ==
    IF freshResults = << >> THEN m
    ELSE StoreFresh(IF Truthy(freshResults[1].range)
                      THEN SetEffect(m, CacheKey(id, freshResults[1].range),
                                     freshResults[1].values, << >>, t)
                      ELSE m,
                    id, Tail(freshResults), t)

\* wrappedClient.batchRead up to its return (all cached) or its await
WrappedBatchRead(t, id, ranges) ==
    LET cachedResults == CachedResults(cache, id, ranges, now)
        uncachedRanges == UncachedRanges(cache, id, ranges, now)
        entered == [NoCall EXCEPT !.op = "batchRead", !.id = id, !.ranges = ranges,
                                  !.cachedResults = cachedResults]
    IN  /\ CanBegin(t)
        /\ callsStarted' = callsStarted + 1
        /\ cache' = GetEach(cache, id, ranges, now)
        /\ call' = [call EXCEPT ![t] =
              IF Len(uncachedRanges) > 0
                THEN [entered EXCEPT !.pc = "awaiting", !.inwardCalls = 1,
                                     !.inwardArgs = uncachedRanges]
                ELSE [entered EXCEPT !.pc = "returned",
                                     !.ret = Combine(ranges, cachedResults, << >>)]]
        /\ UNCHANGED <<sheet, committed, cacheConfig, lastOp, now>>
        /\ UNCHANGED <<retryVars, classifyVars, limiterVars, bucketVars, metricsVars>>

\* the remote side serves the inward batchRead of task t
TransportServesBatchRead(t, echo) ==
    /\ call[t].pc = "awaiting"
    /\ call[t].op = "batchRead"
    /\ call' = [call EXCEPT ![t].pc = "resumable",
                  ![t].fetched =
                      [i \in 1..Len(call[t].inwardArgs) |->
                          [range |-> ResultRange(echo, call[t].inwardArgs[i]),
                           values |-> Content(sheet[CacheKey(call[t].id,
                                                    call[t].inwardArgs[i])])]]]
    /\ UNCHANGED <<sheet, callsStarted, committed, cacheVars, now>>
    /\ UNCHANGED <<retryVars, classifyVars, limiterVars, bucketVars, metricsVars>>

\* wrappedClient.batchRead after the await
WrappedBatchReadResumes(t) ==
    /\ call[t].pc = "resumable"
    /\ call[t].op = "batchRead"
    /\ cache' = StoreFresh(cache, call[t].id, call[t].fetched, now)
    /\ call' = [call EXCEPT ![t].pc = "returned",
                  ![t].ret = Combine(call[t].ranges, call[t].cachedResults,
                                     call[t].fetched)]
    /\ UNCHANGED <<sheet, callsStarted, committed, cacheConfig, lastOp, now>>
    /\ UNCHANGED <<retryVars, classifyVars, limiterVars, bucketVars, metricsVars>>

\* a wrapped write, append or clear at the await of the original method
Awaiting(op, id, range) ==
    [NoCall EXCEPT !.op = op, !.pc = "awaiting", !.id = id, !.range = range,
                   !.inwardCalls = 1, !.inwardArgs = <<range>>]

\* wrappedClient.write up to its await
WrappedWrite(t, id, range) ==
    /\ CanBegin(t)
    /\ callsStarted' = callsStarted + 1
    /\ call' = [call EXCEPT ![t] = Awaiting("write", id, range)]
    /\ UNCHANGED <<sheet, committed, cacheVars, now>>
    /\ UNCHANGED <<retryVars, classifyVars, limiterVars, bucketVars, metricsVars>>

\* wrappedClient.append up to its await
WrappedAppend(t, id, range) ==
    /\ CanBegin(t)
    /\ callsStarted' = callsStarted + 1
    /\ call' = [call EXCEPT ![t] = Awaiting("append", id, range)]
    /\ UNCHANGED <<sheet, committed, cacheVars, now>>
    /\ UNCHANGED <<retryVars, classifyVars, limiterVars, bucketVars, metricsVars>>

\* wrappedClient.clear up to its await
WrappedClear(t, id, range) ==
    /\ CanBegin(t)
    /\ callsStarted' = callsStarted + 1
    /\ call' = [call EXCEPT ![t] = Awaiting("clear", id, range)]
    /\ UNCHANGED <<sheet, committed, cacheVars, now>>
    /\ UNCHANGED <<retryVars, classifyVars, limiterVars, bucketVars, metricsVars>>

\* the remote side applies the inward write, append or clear of task t
TransportAppliesUpdate(t) ==
    LET key == CacheKey(call[t].id, call[t].range)
    IN  /\ call[t].pc = "awaiting"
        /\ call[t].op \in {"write", "append", "clear"}
        /\ sheet' = [sheet EXCEPT ![key] = @ + 1]
        /\ call' = [call EXCEPT ![t].pc = "resumable", ![t].fetched = <<"ok">>,
                                ![t].wrote = sheet[key] + 1]
        /\ UNCHANGED <<callsStarted, committed, cacheVars, now>>
        /\ UNCHANGED <<retryVars, classifyVars, limiterVars, bucketVars, metricsVars>>

TransportFailsInvalidating(t) ==
    /\ call[t].pc = "awaiting"
    /\ call' = [call EXCEPT ![t].pc = "raised", ![t].error = "Error"]
    /\ cache' = InvalidateEffect(cache, << >>)
    /\ UNCHANGED <<sheet, callsStarted, committed, cacheConfig, lastOp, now>>
    /\ UNCHANGED <<retryVars, classifyVars, limiterVars, bucketVars, metricsVars>>

\* the inward call of task t rejects: the await rethrows out of the wrapper
TransportFails(t) ==
    /\ call[t].pc = "awaiting"
    /\ call' = [call EXCEPT ![t].pc = "raised", ![t].error = "Error"]
    /\ UNCHANGED <<sheet, callsStarted, committed, cacheVars, now>>
    /\ UNCHANGED <<retryVars, classifyVars, limiterVars, bucketVars, metricsVars>>

\* `${spreadsheetId}:${range}*`
WritePattern(id, range) == CacheKey(id, range) \o <<"*">>

\* `${spreadsheetId}:*`
AppendPattern(id, range) == id \o <<":", "*">>

\* the wrapper after the await: cache.invalidate(pattern); return result
InvalidateAndReturn(t, pattern) ==
    /\ call[t].pc = "resumable"
    /\ cache' = InvalidateEffect(cache, pattern)
    /\ call' = [call EXCEPT ![t] =
          IF InvalidateThrows(pattern)
            THEN [@ EXCEPT !.pc = "raised", !.error = "SyntaxError"]
            ELSE [@ EXCEPT !.pc = "returned", !.ret = call[t].fetched]]
    /\ UNCHANGED <<sheet, callsStarted, cacheConfig, lastOp, now>>
    /\ UNCHANGED <<retryVars, classifyVars, limiterVars, bucketVars, metricsVars>>

\* wrappedClient.write after the await
WrappedWriteResumes(t) ==
    LET key == CacheKey(call[t].id, call[t].range)
    IN  /\ call[t].op = "write"
        /\ InvalidateAndReturn(t, WritePattern(call[t].id, call[t].range))
        /\ committed' =
              IF InvalidateThrows(WritePattern(call[t].id, call[t].range))
                THEN committed
                ELSE [committed EXCEPT ![key] = Max(@, call[t].wrote)]

\* wrappedClient.append after the await
WrappedAppendResumes(t) ==
    /\ call[t].op = "append"
    /\ InvalidateAndReturn(t, AppendPattern(call[t].id, call[t].range))
    /\ UNCHANGED committed

\* wrappedClient.clear after the await
WrappedClearResumes(t) ==
    /\ call[t].op = "clear"
    /\ InvalidateAndReturn(t, WritePattern(call[t].id, call[t].range))
    /\ UNCHANGED committed

\* the methods that withCache does not override: wrappedClient is
\* Object.create(client), so the call runs the wrapped client's own method
PassedThroughOps == {"batchWrite", "batchClear", "getSpreadsheet"}
PassedThroughRanges == { <<"A">> }
\* the calls of those methods: batchWrite and batchClear on a range,
\* getSpreadsheet without one
PassedThroughCalls ==
    { <<op, r>> : op \in {"batchWrite", "batchClear"}, r \in PassedThroughRanges }
        \cup { <<"getSpreadsheet", << >> >> }

\* wrappedClient.batchWrite, batchClear or getSpreadsheet up to the await of
\* the transport
PassedThrough(t, op, id, range) ==
    /\ CanBegin(t)
    /\ callsStarted' = callsStarted + 1
    /\ call' = [call EXCEPT ![t] = Awaiting(op, id, range)]
    /\ UNCHANGED <<sheet, committed, cacheVars, now>>
    /\ UNCHANGED <<retryVars, classifyVars, limiterVars, bucketVars, metricsVars>>

TransportServesPassedThroughInvalidating(t) ==
    LET key == CacheKey(call[t].id, call[t].range)
        updates == call[t].op \in {"batchWrite", "batchClear"}
    IN  /\ call[t].pc = "awaiting"
        /\ call[t].op \in PassedThroughOps
        /\ sheet' = IF updates THEN [sheet EXCEPT ![key] = @ + 1] ELSE sheet
        /\ cache' = InvalidateEffect(cache, AppendPattern(call[t].id, call[t].range))
        /\ call' = [call EXCEPT ![t].pc = "returned", ![t].fetched = <<"ok">>,
                                ![t].ret = <<"ok">>,
                                ![t].wrote = IF updates THEN sheet[key] + 1 ELSE 0]
        /\ UNCHANGED <<callsStarted, committed, cacheConfig, lastOp, now>>
        /\ UNCHANGED <<retryVars, classifyVars, limiterVars, bucketVars, metricsVars>>

\* the remote side serves the batchWrite, batchClear or getSpreadsheet of task
\* t and the call returns its response
TransportServesPassedThrough(t) ==
    LET key == CacheKey(call[t].id, call[t].range)
        updates == call[t].op \in {"batchWrite", "batchClear"}
    IN  /\ call[t].pc = "awaiting"
        /\ call[t].op \in PassedThroughOps
        /\ sheet' = IF updates THEN [sheet EXCEPT ![key] = @ + 1] ELSE sheet
        /\ call' = [call EXCEPT ![t].pc = "returned", ![t].fetched = <<"ok">>,
                                ![t].ret = <<"ok">>,
                                ![t].wrote = IF updates THEN sheet[key] + 1 ELSE 0]
        /\ UNCHANGED <<callsStarted, committed, cacheVars, now>>
        /\ UNCHANGED <<retryVars, classifyVars, limiterVars, bucketVars, metricsVars>>

\* state after withCache(client, config)
InitCachedClient ==
    /\ \E n \in DecoratorCapacities :
          cacheConfig = [ttlSeconds |-> 1, maxEntries |-> n]
    /\ cache = << >>
    /\ lastOp = [op |-> "new", key |-> << >>, ret |-> Null]
    /\ now = 0
    /\ retryConfig = [maxAttempts |-> 3, initialDelay |-> 1000, maxDelay |-> 10000]
    /\ RetryIdle
    /\ ClassifyIdle
    /\ DecoratorIdle
    /\ LimiterIdle
    /\ BucketIdle
    /\ CollectorIdle
    /\ WrapperIdle

NextCachedClient ==
    \/ \E t \in Tasks, id \in SheetIds, r \in Ranges : WrappedRead(t, id, r)
    \/ \E t \in Tasks : TransportServesRead(t)
    \/ \E t \in Tasks : WrappedReadResumes(t)
    \/ \E t \in Tasks, id \in UpdatedIds, rs \in RangeLists : WrappedBatchRead(t, id, rs)
    \/ \E t \in Tasks, e \in RangeEchoes : TransportServesBatchRead(t, e)
    \/ \E t \in Tasks : WrappedBatchReadResumes(t)
    \/ \E t \in Tasks, id \in UpdatedIds, r \in Ranges : WrappedWrite(t, id, r)
    \/ \E t \in Tasks, id \in UpdatedIds, r \in AppendRanges : WrappedAppend(t, id, r)
    \/ \E t \in Tasks, id \in UpdatedIds, r \in Ranges : WrappedClear(t, id, r)
    \/ \E t \in Tasks : TransportAppliesUpdate(t)
    \/ \E t \in Tasks : TransportFails(t)
    \/ \E t \in Tasks : WrappedWriteResumes(t)
    \/ \E t \in Tasks : WrappedAppendResumes(t)
    \/ \E t \in Tasks : WrappedClearResumes(t)
    \/ \E dt \in DecoratorClockSteps : Tick(dt)

CachedClientSpec == InitCachedClient /\ [][NextCachedClient]_vars

\* the cached client used for single reads and writes and for the methods
\* that are passed through
NextPassThrough ==
    \/ \E t \in Tasks, id \in UpdatedIds, r \in PassedThroughRanges :
          WrappedRead(t, id, r)
    \/ \E t \in Tasks : TransportServesRead(t)
    \/ \E t \in Tasks : WrappedReadResumes(t)
    \/ \E t \in Tasks, id \in UpdatedIds, r \in PassedThroughRanges :
          WrappedWrite(t, id, r)
    \/ \E t \in Tasks : TransportAppliesUpdate(t)
    \/ \E t \in Tasks : WrappedWriteResumes(t)
    \/ \E t \in Tasks, id \in UpdatedIds, c \in PassedThroughCalls :
          PassedThrough(t, c[1], id, c[2])
    \/ \E t \in Tasks : TransportServesPassedThrough(t)
    \/ \E t \in Tasks : TransportFails(t)
    \/ \E dt \in DecoratorClockSteps : Tick(dt)

PassThroughSpec == InitCachedClient /\ [][NextPassThrough]_vars

\* ------------------------------------- AdaptiveRateLimiter specification
windowMs == 100000
maxRequestsPerWindow == 90
WindowSlack == 100
DelayStep == 200
DelayCeiling == 1000
DelayRelief == 10

\* what fn() rejects with: a GoogleSheetsError of code 429, a raw failure with
\* response.status 429, a GoogleSheetsError of code 500
LimiterFailures ==
    { [code |-> "429", status |-> Undefined, isGoogleSheetsError |-> TRUE],
      [code |-> Undefined, status |-> "429", isGoogleSheetsError |-> FALSE],
      [code |-> "500", status |-> Undefined, isGoogleSheetsError |-> TRUE] }

isRateLimitOfAnyFailure(error) == error.code # Undefined \/ error.status # Undefined

\* isRateLimit of the catch block
isRateLimit(error) ==
    \/ error.code = "429"
    \/ error.status = "429"
    \/ (error.isGoogleSheetsError /\ error.code = "429")

\* requestTimes.filter(time => time > now - windowMs)
CleanOld(times, t) == SelectSeq(times, LAMBDA time : time > t - windowMs)

\* the limiter has to wait for the window to slide
WindowFull(times, t) ==
    /\ Len(times) >= maxRequestsPerWindow
    /\ times[1] # 0
    /\ times[1] + windowMs - t > 0

\* a task may enter execute
CanExecute(t) ==
    /\ exec[t].pc \in {"idle", "returned", "raised"}
    /\ executes < MaxExecutes

\* position after the window check: the adaptive delay, or the call of fn
AfterWindow(t) ==
    IF baseDelay > 0
      THEN [pc |-> "delayWait", wakeAt |-> t + baseDelay, error |-> << >>]
      ELSE [pc |-> "calling", wakeAt |-> 0, error |-> << >>]

\* execute(fn) up to its first await
Execute(t) ==
    LET cleaned == CleanOld(requestTimes, now)
    IN  /\ CanExecute(t)
        /\ executes' = executes + 1
        /\ requestTimes' = cleaned
        /\ exec' = [exec EXCEPT ![t] =
              IF WindowFull(cleaned, now)
                THEN [pc |-> "windowWait",
                      wakeAt |-> now + (cleaned[1] + windowMs - now) + WindowSlack,
                      error |-> << >>]
                ELSE AfterWindow(now)]
        /\ UNCHANGED <<successRate, baseDelay, streak, failures, now>>
        /\ UNCHANGED <<retryVars, classifyVars, cacheVars, decoratorVars, bucketVars,
                 metricsVars>>

\* timers fire in the order in which they are due
TimerDue(t) ==
    \A u \in Tasks :
        exec[u].pc \in {"windowWait", "delayWait"} => exec[t].wakeAt <= exec[u].wakeAt

\* the setTimeout of the window check fires
WindowTimerFires(t) ==
    /\ exec[t].pc = "windowWait"
    /\ TimerDue(t)
    /\ now' = Max(now, exec[t].wakeAt)
    /\ exec' = [exec EXCEPT ![t] = AfterWindow(Max(now, exec[t].wakeAt))]
    /\ UNCHANGED <<successRate, baseDelay, requestTimes, executes, streak, failures>>
    /\ UNCHANGED <<retryVars, classifyVars, cacheVars, decoratorVars, bucketVars,
                 metricsVars>>

\* the setTimeout of the adaptive delay fires: fn() is called
DelayTimerFires(t) ==
    /\ exec[t].pc = "delayWait"
    /\ TimerDue(t)
    /\ now' = Max(now, exec[t].wakeAt)
    /\ exec' = [exec EXCEPT ![t] = [pc |-> "calling", wakeAt |-> 0, error |-> << >>]]
    /\ UNCHANGED <<successRate, baseDelay, requestTimes, executes, streak, failures>>
    /\ UNCHANGED <<retryVars, classifyVars, cacheVars, decoratorVars, bucketVars,
                 metricsVars>>

\* Math.min(1.0, successRate * 1.05), in thousandths
RaisedRate(rate) == Min(FullRate, (rate * 105) \div 100)

RelievedDelayUnfloored(delay) == delay - DelayRelief

\* Math.max(0, baseDelay - 10)
RelievedDelay(delay) == Max(0, delay - DelayRelief)

IncreasedDelayUncapped(delay) == delay + DelayStep

\* Math.min(1000, baseDelay + 200)
IncreasedDelay(delay) == Min(DelayCeiling, delay + DelayStep)

\* fn() resolves: the success branch of execute
FnResolves(t) ==
    /\ exec[t].pc = "calling"
    /\ requestTimes' = Append(requestTimes, now)
    /\ successRate' = RaisedRate(successRate)
    /\ baseDelay' = RelievedDelay(baseDelay)
    /\ streak' = streak + 1
    /\ exec' = [exec EXCEPT ![t] = [pc |-> "returned", wakeAt |-> 0, error |-> << >>]]
    /\ UNCHANGED <<executes, failures, now>>
    /\ UNCHANGED <<retryVars, classifyVars, cacheVars, decoratorVars, bucketVars,
                 metricsVars>>

\* fn() rejects with error: the catch block of execute
FnRejects(t, error) ==
    /\ exec[t].pc = "calling"
    /\ IF isRateLimit(error)
         THEN /\ streak <= 1
              /\ failures.rateLimit < MaxRateLimited
              /\ failures' = [failures EXCEPT !.rateLimit = @ + 1]
              /\ successRate' = successRate \div 2
              /\ baseDelay' = IncreasedDelay(baseDelay)
              /\ streak' = 0
         ELSE /\ streak = 0
              /\ failures.other < MaxOtherFailures
              /\ failures' = [failures EXCEPT !.other = @ + 1]
              /\ UNCHANGED <<successRate, baseDelay, streak>>
    /\ exec' = [exec EXCEPT ![t] = [pc |-> "raised", wakeAt |-> 0, error |-> <<error>>]]
    /\ UNCHANGED <<requestTimes, executes, now>>
    /\ UNCHANGED <<retryVars, classifyVars, cacheVars, decoratorVars, bucketVars,
                 metricsVars>>

\* state after new AdaptiveRateLimiter(); Date.now() is positive
InitAdaptive ==
    /\ now = 1
    /\ LimiterIdle
    /\ BucketIdle
    /\ CollectorIdle
    /\ WrapperIdle
    /\ retryConfig = [maxAttempts |-> 3, initialDelay |-> 1000, maxDelay |-> 10000]
    /\ RetryIdle
    /\ ClassifyIdle
    /\ CacheIdle
    /\ DecoratorIdle

\* one caller that awaits each execute before it makes the next one
SequentialCallers == {1}

NextAdaptive ==
    \/ \E t \in SequentialCallers : Execute(t)
    \/ \E t \in SequentialCallers : WindowTimerFires(t)
    \/ \E t \in SequentialCallers : DelayTimerFires(t)
    \/ \E t \in SequentialCallers : FnResolves(t)
    \/ \E t \in SequentialCallers, e \in LimiterFailures : FnRejects(t, e)

AdaptiveSpec == InitAdaptive /\ [][NextAdaptive]_vars

\* concurrent callers whose operations never fail with a rate-limit error:
\* baseDelay stays 0, so the adaptive-delay timer is never armed
NextAdaptiveConcurrent ==
    \/ \E t \in Tasks : Execute(t)
    \/ \E t \in Tasks : WindowTimerFires(t)
    \/ \E t \in Tasks : FnResolves(t)
    \/ \E t \in Tasks, e \in { f \in LimiterFailures : ~isRateLimit(f) } :
          FnRejects(t, e)

AdaptiveConcurrentSpec == InitAdaptive /\ [][NextAdaptiveConcurrent]_vars

\* ---------------------------------- TokenBucketRateLimiter specification
\* the (maxTokens, refillRate) pairs a bucket is constructed with
BucketConfigs == { <<1, 3>>, <<2, 1>> }
TokenCounts == {1, 2}
BucketClockSteps == {500}

\* what the inward call of the token-bucket client rejects with: a
\* GoogleSheetsError of code 429, a raw failure with response.status 500
BucketFailures ==
    { [code |-> "429", status |-> Undefined, isGoogleSheetsError |-> TRUE],
      [code |-> Undefined, status |-> "500", isGoogleSheetsError |-> FALSE] }

RefilledTokensWithoutRefill(t) == Min(bucketConfig.maxTokens * TokenUnit, tokens)

RefilledTokensFromEmpty(t) ==
    Min(bucketConfig.maxTokens * TokenUnit,
        (t - lastRefill) * bucketConfig.refillRate)

\* acquire: the balance after the refill at time t
RefilledTokens(t) ==
    Min(bucketConfig.maxTokens * TokenUnit,
        tokens + (t - lastRefill) * bucketConfig.refillRate)

MustWaitNever(balance, n) == FALSE

\* acquire: if (this.tokens < tokens)
MustWait(balance, n) == balance < n * TokenUnit

\* acquire: waitTime, as setTimeout takes it (whole milliseconds, at least 1)
WaitTime(balance, n) ==
    Max(1, (n * TokenUnit - balance) \div bucketConfig.refillRate)

\* acquire(n) run by task t at time `at`, as its call number id: refill, then
\* wait or deduct
AcquireBody(t, id, n, via, at, waits) ==
    LET balance == RefilledTokens(at) IN
    /\ lastRefill' = at
    /\ inwardStarts' = IF ~MustWait(balance, n) /\ via = "client"
                          THEN Append(inwardStarts, at)
                          ELSE inwardStarts
    /\ IF MustWait(balance, n)
         THEN /\ tokens' = balance
              /\ acq' = [acq EXCEPT ![t] =
                            [pc |-> "waiting", id |-> id, via |-> via, n |-> n,
                             wakeAt |-> at + WaitTime(balance, n),
                             waits |-> waits + 1, error |-> << >>]]
         ELSE /\ tokens' = balance - n * TokenUnit
              /\ acq' = [acq EXCEPT ![t] =
                            [pc |-> IF via = "client" THEN "calling" ELSE "acquired",
                             id |-> id, via |-> via, n |-> n, wakeAt |-> 0,
                             waits |-> waits, error |-> << >>]]

\* task t may start a call
CanAcquire(t) ==
    /\ acq[t].pc \in {"idle", "acquired", "returned", "raised"}
    /\ acquires < MaxAcquires

\* limiter.acquire(n) is called
Acquire(t, n) ==
    /\ CanAcquire(t)
    /\ acquires' = acquires + 1
    /\ AcquireBody(t, acquires + 1, n, "acquire", now, 0)
    /\ peeked' = << >>
    /\ UNCHANGED <<bucketConfig, now>>
    /\ UNCHANGED <<retryVars, classifyVars, cacheVars, decoratorVars, limiterVars,
                   metricsVars>>

\* a method of the withTokenBucketRateLimit client is called: await acquire(1)
BucketClientCall(t) ==
    /\ CanAcquire(t)
    /\ acquires' = acquires + 1
    /\ AcquireBody(t, acquires + 1, 1, "client", now, 0)
    /\ peeked' = << >>
    /\ UNCHANGED <<bucketConfig, now>>
    /\ UNCHANGED <<retryVars, classifyVars, cacheVars, decoratorVars, limiterVars,
                   metricsVars>>

\* the setTimeout of a waiting acquire fires: return this.acquire(tokens)
AcquireTimerFires(t, late) ==
    /\ acq[t].pc = "waiting"
    /\ now' = Max(now, acq[t].wakeAt) + late
    /\ now' <= MaxBucketNow
    /\ AcquireBody(t, acq[t].id, acq[t].n, acq[t].via, now', acq[t].waits)
    /\ peeked' = << >>
    /\ UNCHANGED <<bucketConfig, acquires>>
    /\ UNCHANGED <<retryVars, classifyVars, cacheVars, decoratorVars, limiterVars,
                   metricsVars>>

\* the inward call of the token-bucket client resolves
BucketInwardResolves(t) ==
    /\ acq[t].pc = "calling"
    /\ acq' = [acq EXCEPT ![t].pc = "returned"]
    /\ peeked' = << >>
    /\ UNCHANGED <<bucketConfig, tokens, lastRefill, acquires, inwardStarts, now>>
    /\ UNCHANGED <<retryVars, classifyVars, cacheVars, decoratorVars, limiterVars,
                   metricsVars>>

BucketInwardRejectsRefunding(t, error) ==
    /\ acq[t].pc = "calling"
    /\ acq' = [acq EXCEPT ![t].pc = "raised", ![t].error = <<error>>]
    /\ tokens' = tokens + TokenUnit
    /\ peeked' = << >>
    /\ UNCHANGED <<bucketConfig, lastRefill, acquires, inwardStarts, now>>
    /\ UNCHANGED <<retryVars, classifyVars, cacheVars, decoratorVars, limiterVars,
                   metricsVars>>

\* the inward call of the token-bucket client rejects: the rejection passes through
BucketInwardRejects(t, error) ==
    /\ acq[t].pc = "calling"
    /\ acq' = [acq EXCEPT ![t].pc = "raised", ![t].error = <<error>>]
    /\ peeked' = << >>
    /\ UNCHANGED <<bucketConfig, tokens, lastRefill, acquires, inwardStarts, now>>
    /\ UNCHANGED <<retryVars, classifyVars, cacheVars, decoratorVars, limiterVars,
                   metricsVars>>

AvailableTokensUncapped(t) ==
    tokens + (t - lastRefill) * bucketConfig.refillRate

\* getAvailableTokens: the value returned at time t
AvailableTokens(t) ==
    Min(bucketConfig.maxTokens * TokenUnit,
        tokens + (t - lastRefill) * bucketConfig.refillRate)

\* limiter.getAvailableTokens() is called
GetAvailableTokens ==
    /\ peeked' = << [at |-> now, value |-> AvailableTokens(now)] >>
    /\ UNCHANGED <<bucketConfig, tokens, lastRefill, acq, acquires, inwardStarts,
                   now>>
    /\ UNCHANGED <<retryVars, classifyVars, cacheVars, decoratorVars, limiterVars,
                   metricsVars>>

\* time passes while nothing runs
BucketTick(dt) ==
    /\ now + dt <= MaxBucketNow
    /\ now' = now + dt
    /\ peeked' = << >>
    /\ UNCHANGED <<bucketConfig, tokens, lastRefill, acq, acquires, inwardStarts>>
    /\ UNCHANGED <<retryVars, classifyVars, cacheVars, decoratorVars, limiterVars,
                   metricsVars>>

\* state after new TokenBucketRateLimiter(maxTokens, refillRate)
InitTokenBucket ==
    /\ now = 0
    /\ \E c \in BucketConfigs :
          /\ bucketConfig = [maxTokens |-> c[1], refillRate |-> c[2]]
          /\ tokens = c[1] * TokenUnit
    /\ lastRefill = now
    /\ acq = [t \in Tasks |-> NoAcquire]
    /\ acquires = 0
    /\ peeked = << >>
    /\ inwardStarts = << >>
    /\ retryConfig = [maxAttempts |-> 3, initialDelay |-> 1000, maxDelay |-> 10000]
    /\ RetryIdle
    /\ ClassifyIdle
    /\ CacheIdle
    /\ DecoratorIdle
    /\ LimiterIdle
    /\ CollectorIdle
    /\ WrapperIdle

\* the limiter used directly
NextTokenBucket ==
    \/ \E t \in Tasks, n \in TokenCounts : Acquire(t, n)
    \/ \E t \in Tasks, late \in TimerLateness : AcquireTimerFires(t, late)
    \/ GetAvailableTokens
    \/ \E dt \in BucketClockSteps : BucketTick(dt)

TokenBucketSpec == InitTokenBucket /\ [][NextTokenBucket]_vars

\* the limiter behind withTokenBucketRateLimit: concurrent callers of the
\* wrapped methods
NextTokenBucketClient ==
    \/ \E t \in Tasks : BucketClientCall(t)
    \/ \E t \in Tasks, late \in TimerLateness : AcquireTimerFires(t, late)
    \/ \E t \in Tasks : BucketInwardResolves(t)
    \/ \E t \in Tasks, error \in BucketFailures : BucketInwardRejects(t, error)
    \/ \E dt \in BucketClockSteps : BucketTick(dt)

TokenBucketClientSpec == InitTokenBucket /\ [][NextTokenBucketClient]_vars

\* limiter.acquire(n) is called with n <= maxTokens
AcquireWithinCapacity(t, n) ==
    /\ n <= bucketConfig.maxTokens
    /\ Acquire(t, n)

\* the setTimeout of a waiting acquire fires once it is due: return
\* this.acquire(tokens)
AcquireResumes(t) ==
    /\ acq[t].pc = "waiting"
    /\ now' = Max(now, acq[t].wakeAt)
    /\ now' <= MaxFairNow
    /\ AcquireBody(t, acq[t].id, acq[t].n, acq[t].via, now', acq[t].waits)
    /\ peeked' = << >>
    /\ UNCHANGED <<bucketConfig, acquires>>
    /\ UNCHANGED <<retryVars, classifyVars, cacheVars, decoratorVars, limiterVars,
                   metricsVars>>

\* finitely many callers of acquire(n), n <= maxTokens
NextTokenBucketFair ==
    \/ \E t \in Tasks, n \in TokenCounts : AcquireWithinCapacity(t, n)
    \/ \E t \in Tasks : AcquireResumes(t)
    \/ \E dt \in BucketClockSteps : BucketTick(dt)

\* the event loop runs the callback of every timer that is due
TokenBucketFairSpec ==
    /\ InitTokenBucket
    /\ [][NextTokenBucketFair]_vars
    /\ \A t \in Tasks : WF_vars(AcquireResumes(t))

\* ---------------------------------------- MetricsCollector specification
maxLatencySamples == 100
SteadyDuration == 20

\* a raw failure that carries response.status 500
RawServerError == [name |-> "Error", status |-> "500"]

RecordedInput(m, duration, success, retries, error) ==
    [method |-> m, duration |-> duration, success |-> success,
     retries |-> retries, error |-> error]

\* the recordRequest calls that vary: successes (one of them with an error
\* argument), a failure without an error argument, and failures with a
\* GoogleSheetsError of code 429, with a raw failure and with a TypeError
RecordedInputs ==
    { RecordedInput("read", 10, TRUE, 0, << >>),
      RecordedInput("append", 10, TRUE, 0, << RawServerError >>),
      RecordedInput("write", 30, TRUE, 2, << >>),
      RecordedInput("read", 10, FALSE, 0, << >>),
      RecordedInput("write", 30, FALSE, 2,
          << GoogleSheetsError(RawFailure(Undefined, "429", "Rate limit", Undefined)) >>),
      RecordedInput("read", 10, FALSE, 0, << RawServerError >>),
      RecordedInput("write", 30, FALSE, 2, << TypeErrorOfUndefined >>) }

RECURSIVE SumSeq(_)
SumSeq(q) == IF q = << >> THEN 0 ELSE Head(q) + SumSeq(Tail(q))

IncrementedAlone(map, key) == [k \in {key} |-> 1]

\* map.set(key, (map.get(key) || 0) + 1)
Incremented(map, key) ==
    [k \in DOMAIN map \cup {key} |->
        IF k = key THEN (IF k \in DOMAIN map THEN map[k] ELSE 0) + 1 ELSE map[k]]

\* error.code || error.response?.status ||
\* (error instanceof GoogleSheetsError ? error.code : 'unknown')
ErrorCode(error) ==
    LET code == IF "code" \in DOMAIN error THEN error.code ELSE Undefined
        status == IF "status" \in DOMAIN error THEN error.status ELSE Undefined
    IN  IF code # Undefined THEN code
        ELSE IF status # Undefined THEN status
        ELSE IF error.name = "GoogleSheetsError" THEN code
        ELSE "'unknown'"

\* recordRequest, lines 50-62: the error book-keeping of a failed request
ErrorsRecorded(mt, error) ==
    IF error = << >> THEN mt
    ELSE LET code == ErrorCode(error[1]) IN
         [mt EXCEPT !.errorsByCode = Incremented(@, code),
                    !.rateLimitHits = IF code = "429" THEN @ + 1 ELSE @]

PushedUntrimmed(lat, duration) == Append(lat, duration)

\* recordRequest, lines 68-71: push, then drop the oldest sample beyond the limit
Pushed(lat, duration) ==
    LET longer == Append(lat, duration)
    IN  IF Len(longer) > maxLatencySamples THEN Tail(longer) ELSE longer

RecordedMetricsErrorOfSuccess(mt, lat, m, duration, success, retries, error) ==
    LET counted == [mt EXCEPT !.totalRequests = @ + 1,
                              !.requestsByMethod = Incremented(@, m)]
        settled == ErrorsRecorded(
                       IF success
                         THEN [counted EXCEPT !.successfulRequests = @ + 1]
                         ELSE [counted EXCEPT !.failedRequests = @ + 1],
                       error)
        samples == Pushed(lat, duration)
    IN  [settled EXCEPT !.retryCount = @ + retries,
                        !.averageLatency = Quotient(SumSeq(samples), Len(samples))]

\* recordRequest: the metrics object after the call
RecordedMetrics(mt, lat, m, duration, success, retries, error) ==
    LET counted == [mt EXCEPT !.totalRequests = @ + 1,
                              !.requestsByMethod = Incremented(@, m)]
        settled == IF success
                     THEN [counted EXCEPT !.successfulRequests = @ + 1]
                     ELSE ErrorsRecorded([counted EXCEPT !.failedRequests = @ + 1],
                                         error)
        samples == Pushed(lat, duration)
    IN  [settled EXCEPT !.retryCount = @ + retries,
                        !.averageLatency = Quotient(SumSeq(samples), Len(samples))]

\* recordRequest as a step of the collector
RecordRequestEffect(m, duration, success, retries, error) ==
    /\ metrics' = RecordedMetrics(metrics, latencies, m, duration, success,
                                  retries, error)
    /\ latencies' = Pushed(latencies, duration)
    /\ recorded' = Append(recorded,
                          RecordedInput(m, duration, success, retries, error))
    /\ collectorOp' = [op |-> "recordRequest", ret |-> << >>]
    /\ UNCHANGED startTime

\* metrics.recordRequest(...) is called with inputs that vary
RecordRequest(c) ==
    /\ Len(recorded) < MaxVaried
    /\ RecordRequestEffect(c.method, c.duration, c.success, c.retries, c.error)
    /\ UNCHANGED <<wrapperVars, now>>
    /\ UNCHANGED <<retryVars, classifyVars, cacheVars, decoratorVars, limiterVars,
                   bucketVars>>

\* metrics.recordRequest('read', SteadyDuration, true) is called
RecordSteadyRequest ==
    /\ Len(recorded) >= MaxVaried
    /\ Len(recorded) < MaxRecords
    /\ RecordRequestEffect("read", SteadyDuration, TRUE, 0, << >>)
    /\ UNCHANGED <<wrapperVars, now>>
    /\ UNCHANGED <<retryVars, classifyVars, cacheVars, decoratorVars, limiterVars,
                   bucketVars>>

\* metrics.recordRateLimitHit() is called
RecordRateLimitHit ==
    /\ metrics.rateLimitHits < MaxRateLimitHits
    /\ metrics' = [metrics EXCEPT !.rateLimitHits = @ + 1]
    /\ collectorOp' = [op |-> "recordRateLimitHit", ret |-> << >>]
    /\ UNCHANGED <<latencies, startTime, recorded, wrapperVars, now>>
    /\ UNCHANGED <<retryVars, classifyVars, cacheVars, decoratorVars, limiterVars,
                   bucketVars>>

SuccessRateOfSettled(mt) ==
    IF mt.totalRequests > 0
      THEN Quotient(mt.successfulRequests, mt.successfulRequests)
      ELSE Quotient(0, 1)

\* getSummary: successRate
SuccessRate(mt) ==
    IF mt.totalRequests > 0
      THEN Quotient(mt.successfulRequests, mt.totalRequests)
      ELSE Quotient(0, 1)

\* getSummary: the object returned at time t
Summary(mt, t) ==
    [totalRequests |-> mt.totalRequests,
     successRate |-> SuccessRate(mt),
     averageLatency |-> mt.averageLatency,
     rateLimitHits |-> mt.rateLimitHits,
     uptimeSeconds |-> Quotient(t - startTime, 1000),
     requestsPerSecond |-> Quotient(mt.totalRequests * 1000, t - startTime)]

\* metrics.getSummary() is called
GetSummary ==
    /\ collectorOp' = [op |-> "getSummary", ret |-> << Summary(metrics, now) >>]
    /\ UNCHANGED <<metrics, latencies, startTime, recorded, wrapperVars, now>>
    /\ UNCHANGED <<retryVars, classifyVars, cacheVars, decoratorVars, limiterVars,
                   bucketVars>>

\* metrics.reset() is called
Reset ==
    /\ metrics' = NoMetrics
    /\ latencies' = << >>
    /\ startTime' = now
    /\ recorded' = << >>
    /\ collectorOp' = [op |-> "reset", ret |-> << >>]
    /\ UNCHANGED <<wrapperVars, now>>
    /\ UNCHANGED <<retryVars, classifyVars, cacheVars, decoratorVars, limiterVars,
                   bucketVars>>

\* state after new MetricsCollector()
InitMetrics ==
    /\ now = 0
    /\ CollectorIdle
    /\ WrapperIdle
    /\ retryConfig = [maxAttempts |-> 3, initialDelay |-> 1000, maxDelay |-> 10000]
    /\ RetryIdle
    /\ ClassifyIdle
    /\ CacheIdle
    /\ DecoratorIdle
    /\ LimiterIdle
    /\ BucketIdle

NextMetrics ==
    \/ \E c \in RecordedInputs : RecordRequest(c)
    \/ RecordSteadyRequest
    \/ RecordRateLimitHit
    \/ GetSummary
    \/ Reset

MetricsSpec == InitMetrics /\ [][NextMetrics]_vars

\* --------------------------------------------- withMetrics specification
\* maxAttempts of the core client that withMetrics wraps
WrappedMaxAttempts == 0..MaxAttemptsBound
WrappedOperations == {"read"}
WrappedPayloads == {"rowsA"}
WrappedCallDurations == {3}
WrappedTimerLateness == {0}

\* failures of the transport under the wrapped core client: a network code, a
\* rate-limit status, a permission status, and a retryable top-level code
\* next to a permission status
WrappedTransportFailures ==
    { RawFailure("ECONNRESET", Undefined, "Network error", Undefined),
      RawFailure(Undefined, "429", "Rate limit", Undefined),
      RawFailure(Undefined, "403", "Permission denied", "denied by API"),
      RawFailure("ETIMEDOUT", "403", "timed out", Undefined) }

\* the locals of the withRetry call that has settled are gone
CoreFrameDiscarded ==
    /\ method' = Undefined
    /\ pc' = "idle"
    /\ attempt' = 0
    /\ lastError' = << >>
    /\ wakeAt' = 0
    /\ result' = << >>
    /\ raised' = << >>
    /\ inward' = 0
    /\ rejected' = 0
    /\ thrown' = << >>
    /\ resolved' = << >>
    /\ startedAt' = 0
    /\ callStartedAt' = 0
    /\ sleepFrom' = 0
    /\ lastDelay' = 0
    /\ UNCHANGED retryConfig

\* a method of the withMetrics client is called: startTime, retries = 0
MetricsClientCall(m) ==
    /\ wrapped.pc \in {"idle", "returned", "raised"}
    /\ pc = "idle"
    /\ wrappedCalls < MaxWrappedCalls
    /\ wrappedCalls' = wrappedCalls + 1
    /\ wrapped' = [NoWrapped EXCEPT !.pc = "calling", !.method = m,
                                    !.startTime = now]
    /\ UNCHANGED <<retryVars, collectorVars, now>>
    /\ UNCHANGED <<classifyVars, cacheVars, decoratorVars, limiterVars, bucketVars>>

\* while (retries < 3) { try { await original.apply(client, args)
OriginalApplied ==
    /\ wrapped.pc = "calling"
    /\ Invoke(wrapped.method)

\* the wrapped operation returned: recordRequest(method, duration, true, retries)
MetricsClientReturns ==
    /\ wrapped.pc = "calling"
    /\ pc = "returned"
    /\ RecordRequestEffect(wrapped.method, now - wrapped.startTime, TRUE,
                           wrapped.retries, << >>)
    /\ wrapped' = [wrapped EXCEPT !.pc = "returned", !.ret = result,
                                  !.invocations = @ + 1,
                                  !.transportCalls = @ + inward]
    /\ CoreFrameDiscarded
    /\ UNCHANGED <<wrappedCalls, now>>
    /\ UNCHANGED <<classifyVars, cacheVars, decoratorVars, limiterVars, bucketVars>>

\* error instanceof GoogleSheetsError && error.isRetryable
IsRetryableError(error) == error.name = "GoogleSheetsError" /\ error.isRetryable

GivesUpAtLimitOnly(error, retries) == retries >= 3

\* if (!isRetryable || retries >= 3)
GivesUp(error, retries) == ~IsRetryableError(error) \/ retries >= 3

RecordedRetriesAfterIncrement(retries) == retries

\* the retries argument of the failing recordRequest: retries - 1
RecordedRetries(retries) == retries - 1

WrapperDelayFlat(retries) == 1000

\* setTimeout(r, 1000 * retries)
WrapperDelay(retries) == 1000 * retries

\* the wrapped operation threw: the catch block, up to the throw or the setTimeout
MetricsClientCatches ==
    /\ wrapped.pc = "calling"
    /\ pc = "raised"
    /\ LET error == raised[1]
           retries == wrapped.retries + 1
           caught == [wrapped EXCEPT !.lastError = raised,
                                     !.retries = retries,
                                     !.invocations = @ + 1,
                                     !.transportCalls = @ + inward,
                                     !.transportFailures = @ \cup {thrown}]
       IN  IF GivesUp(error, retries)
             THEN /\ RecordRequestEffect(wrapped.method, now - wrapped.startTime,
                                         FALSE, RecordedRetries(retries), raised)
                  /\ wrapped' = [caught EXCEPT !.pc = "raised", !.error = raised]
             ELSE /\ wrapped' = [caught EXCEPT
                                    !.pc = "sleeping",
                                    !.wakeAt = now + WrapperDelay(retries),
                                    !.delays = Append(@, WrapperDelay(retries))]
                  /\ UNCHANGED collectorVars
    /\ CoreFrameDiscarded
    /\ UNCHANGED <<wrappedCalls, now>>
    /\ UNCHANGED <<classifyVars, cacheVars, decoratorVars, limiterVars, bucketVars>>

\* the setTimeout callback runs: the while condition, then the next
\* iteration, or throw lastError after the loop
MetricsClientTimerFires(late) ==
    /\ wrapped.pc = "sleeping"
    /\ now' = TimerRunsAt(wrapped.wakeAt, late)
    /\ IF wrapped.retries < 3
         THEN wrapped' = [wrapped EXCEPT !.pc = "calling"]
         ELSE wrapped' = [wrapped EXCEPT !.pc = "raised",
                                         !.error = wrapped.lastError]
    /\ UNCHANGED <<wrappedCalls, retryVars, collectorVars>>
    /\ UNCHANGED <<classifyVars, cacheVars, decoratorVars, limiterVars, bucketVars>>

\* state after withMetrics(new GoogleSheetsCore({auth, retryConfig}))
InitMetricsClient ==
    /\ now = 0
    /\ \E m \in WrappedMaxAttempts :
          retryConfig = [maxAttempts |-> m, initialDelay |-> 10, maxDelay |-> 100]
    /\ RetryIdle
    /\ CollectorIdle
    /\ WrapperIdle
    /\ ClassifyIdle
    /\ CacheIdle
    /\ DecoratorIdle
    /\ LimiterIdle
    /\ BucketIdle

NextMetricsClient ==
    \/ \E m \in WrappedOperations : MetricsClientCall(m)
    \/ OriginalApplied
    \/ \E v \in WrappedPayloads, dur \in WrappedCallDurations :
          TransportResolves(v, dur)
    \/ \E e \in WrappedTransportFailures, dur \in WrappedCallDurations :
          TransportRejects(e, dur, 0)
    \/ TimerFires(0)
    \/ MetricsClientReturns
    \/ MetricsClientCatches
    \/ \E late \in WrappedTimerLateness : MetricsClientTimerFires(late)

MetricsClientSpec == InitMetricsClient /\ [][NextMetricsClient]_vars

\* ------------------------------------ failure propagation specification
\* One client per behaviour, decorated by withCache, withAdaptiveRateLimit,
\* withTokenBucketRateLimit or withMetrics, and one caller (task 1) that makes
\* up to MaxPropagationCalls calls through it.
Caller == 1

\* the decorators through which a call has been made so far
DecoratorsUsed ==
    {d \in {"cache", "adaptive", "bucket", "metrics"} :
        \/ d = "cache" /\ callsStarted > 0
        \/ d = "adaptive" /\ executes > 0
        \/ d = "bucket" /\ acquires > 0
        \/ d = "metrics" /\ wrappedCalls > 0}

\* the client of this behaviour is, or can still be, the one decorated by d
ClientIs(d) == DecoratorsUsed \subseteq {d}

\* withCache(client).read(id, range)
CachedRead(id, range) ==
    /\ ClientIs("cache")
    /\ callsStarted < MaxPropagationCalls
    /\ WrappedRead(Caller, id, range)

\* withCache(client).batchRead(id, ranges)
CachedBatchRead(id, ranges) ==
    /\ ClientIs("cache")
    /\ callsStarted < MaxPropagationCalls
    /\ WrappedBatchRead(Caller, id, ranges)

\* withCache(client).write(id, range, values)
CachedWrite(id, range) ==
    /\ ClientIs("cache")
    /\ callsStarted < MaxPropagationCalls
    /\ WrappedWrite(Caller, id, range)

\* withCache(client).append(id, range, values)
CachedAppend(id, range) ==
    /\ ClientIs("cache")
    /\ callsStarted < MaxPropagationCalls
    /\ WrappedAppend(Caller, id, range)

\* withCache(client).clear(id, range)
CachedClear(id, range) ==
    /\ ClientIs("cache")
    /\ callsStarted < MaxPropagationCalls
    /\ WrappedClear(Caller, id, range)

\* a method of the withAdaptiveRateLimit client: limiter.execute(() => original...)
AdaptiveClientCall ==
    /\ ClientIs("adaptive")
    /\ executes < MaxPropagationCalls
    /\ Execute(Caller)

\* a method of the withTokenBucketRateLimit client
TokenBucketClientCall ==
    /\ ClientIs("bucket")
    /\ acquires < MaxPropagationCalls
    /\ BucketClientCall(Caller)

\* a method of the withMetrics client
MetricsDecoratedCall(m) ==
    /\ ClientIs("metrics")
    /\ wrappedCalls < MaxPropagationCalls
    /\ MetricsClientCall(m)

\* state after the construction of the core client and of its decorators
InitPropagation ==
    /\ now = 1
    /\ \E m \in {1, 2} :
          retryConfig = [maxAttempts |-> m, initialDelay |-> 10, maxDelay |-> 100]
    /\ RetryIdle
    /\ ClassifyIdle
    /\ CacheIdle
    /\ DecoratorIdle
    /\ LimiterIdle
    /\ bucketConfig = [maxTokens |-> 1, refillRate |-> 3]
    /\ tokens = TokenUnit
    /\ lastRefill = now
    /\ acq = [t \in Tasks |-> NoAcquire]
    /\ acquires = 0
    /\ peeked = << >>
    /\ inwardStarts = << >>
    /\ CollectorIdle
    /\ WrapperIdle

NextPropagation ==
    \/ \E id \in UpdatedIds, r \in AppendRanges : CachedRead(id, r)
    \/ TransportServesRead(Caller)
    \/ WrappedReadResumes(Caller)
    \/ \E id \in UpdatedIds, rs \in RangeLists : CachedBatchRead(id, rs)
    \/ \E e \in RangeEchoes : TransportServesBatchRead(Caller, e)
    \/ WrappedBatchReadResumes(Caller)
    \/ \E id \in UpdatedIds, r \in AppendRanges : CachedWrite(id, r)
    \/ \E id \in UpdatedIds, r \in AppendRanges : CachedAppend(id, r)
    \/ \E id \in UpdatedIds, r \in AppendRanges : CachedClear(id, r)
    \/ TransportAppliesUpdate(Caller)
    \/ TransportFails(Caller)
    \/ WrappedWriteResumes(Caller)
    \/ WrappedAppendResumes(Caller)
    \/ WrappedClearResumes(Caller)
    \/ AdaptiveClientCall
    \/ DelayTimerFires(Caller)
    \/ FnResolves(Caller)
    \/ \E e \in LimiterFailures : FnRejects(Caller, e)
    \/ TokenBucketClientCall
    \/ AcquireTimerFires(Caller, 0)
    \/ BucketInwardResolves(Caller)
    \/ \E e \in BucketFailures : BucketInwardRejects(Caller, e)
    \/ \E m \in WrappedOperations : MetricsDecoratedCall(m)
    \/ OriginalApplied
    \/ \E v \in WrappedPayloads, dur \in WrappedCallDurations :
          TransportResolves(v, dur)
    \/ \E e \in WrappedTransportFailures, dur \in WrappedCallDurations :
          TransportRejects(e, dur, 0)
    \/ TimerFires(0)
    \/ MetricsClientReturns
    \/ MetricsClientCatches
    \/ \E late \in WrappedTimerLateness : MetricsClientTimerFires(late)

PropagationSpec == InitPropagation /\ [][NextPropagation]_vars

\* ===================================================================== claims
\* the retryable set of the specification (section 4.2)
SpecRetryableSet == {"429", "500", "502", "503", "504",
                     "ECONNRESET", "ETIMEDOUT", "ENOTFOUND"}

\* the code the classifier extracts: the response status, else the top-level code
FailureCode(e) == IF e.status # Undefined THEN e.status ELSE e.code

\* the failure carries a retryable code in either field
HasRetryableCode(e) == {e.code, e.status} \cap SpecRetryableSet # {}

JitterRange == 1000

ExpectedBase(i) ==
    LET e == retryConfig.initialDelay * (2 ^ i)
    IN  IF e <= retryConfig.maxDelay THEN e ELSE retryConfig.maxDelay

RECURSIVE SumOfBases(_)
SumOfBases(k) == IF k = 0 THEN 0 ELSE SumOfBases(k - 1) + ExpectedBase(k - 1)

\* C1: with maxAttempts >= 1, after k < maxAttempts failures that carry a
\* retryable code the call is not raised but goes on to the next attempt; when
\* the transport then resolves, withRetry returns the resolved payload having made
\* exactly k + 1 inward calls, and a returned call makes no further inward call.
C1_RetryThenSuccess ==
    /\ [](pc = "returned" =>
            /\ result = resolved
            /\ inward = rejected + 1)
    /\ []((rejected >= 1 /\ rejected < retryConfig.maxAttempts
            /\ HasRetryableCode(thrown[1])) => pc \in {"sleeping", "attempt", "returned"})
    /\ [][pc = "returned" => (pc' = "returned" /\ inward' = inward /\ result' = result)]_vars

C1_Witness ==
    /\ pc = "returned"
    /\ rejected = 2
    /\ inward = 3
    /\ result = <<"rowsA">>

\* C2: after a failure whose code (the classifier's code) is not in the
\* retryable set the call is raised at once: no backoff suspension follows it
\* and no inward call is made after it, so a first such failure means exactly
\* one inward call.
C2_NonRetryableRaisesAtOnce ==
    (rejected >= 1 /\ FailureCode(thrown[1]) \notin SpecRetryableSet) =>
        /\ pc = "raised"
        /\ inward = rejected

\* C3: maxAttempts counts total tries: a call raised on a failure that carries
\* a retryable code has made exactly maxAttempts inward calls, and no call ever
\* makes more than maxAttempts inward calls.
C3_MaxAttemptsIsTotalTries ==
    /\ inward <= retryConfig.maxAttempts
    /\ (pc = "raised" /\ rejected >= 1 /\ HasRetryableCode(thrown[1])) =>
            /\ inward = retryConfig.maxAttempts
            /\ rejected = retryConfig.maxAttempts

C3_Witness ==
    /\ pc = "raised"
    /\ retryConfig.maxAttempts = 3
    /\ inward = 3
    /\ HasRetryableCode(thrown[1])

\* C4: every failure a core operation surfaces is a GoogleSheetsError.
C4_AlwaysGoogleSheetsError ==
    pc = "raised" => (raised # << >> /\ raised[1].name = "GoogleSheetsError")

\* C5: once at least one attempt was made, the error raised is the
\* GoogleSheetsError built from the raw failure of the last attempt made: its
\* originalError is that failure and its code is that failure's code; every
\* rejection is kept as lastError until it is raised or replaced by a later one.
C5_LastFailureIsRaised ==
    /\ (rejected >= 1) => lastError = thrown
    /\ (pc = "raised" /\ inward >= 1) =>
            /\ raised # << >>
            /\ raised[1].name = "GoogleSheetsError"
            /\ raised[1].originalError = thrown
            /\ raised[1].code = FailureCode(thrown[1])

C5_Witness ==
    /\ pc = "raised"
    /\ rejected = 3
    /\ raised[1].originalError = thrown
    /\ thrown[1].status = "500"

\* C6: the delay chosen after a retryable failure of attempt i lies in
\* [min(initialDelay * 2^i, maxDelay), min(initialDelay * 2^i, maxDelay) + 1000),
\* the next inward call starts no earlier than that delay after the suspension
\* began, and a call that returns after k failures has taken at least the sum of
\* its k base delays.
C6_BackoffDelay ==
    /\ [](pc = "sleeping" =>
            /\ ExpectedBase(attempt) <= lastDelay
            /\ lastDelay < ExpectedBase(attempt) + JitterRange)
    /\ []((pc = "attempt" /\ attempt >= 1) => now >= sleepFrom + lastDelay)
    /\ [][(pc = "attempt" /\ attempt >= 1 /\ inward' = inward + 1) =>
                callStartedAt' >= sleepFrom + lastDelay]_vars
    /\ [](pc = "returned" => now - startedAt >= SumOfBases(rejected))

C6_Witness ==
    /\ pc = "returned"
    /\ retryConfig = [maxAttempts |-> 3, initialDelay |-> 10, maxDelay |-> 100]
    /\ rejected = 2
    /\ inward = 3
    /\ now - startedAt >= 30

C8_GetFreshStrictlyBeforeExpiry ==
    [][\A k \in CacheKeys :
          Get(k) =>
             lastOp'.ret = IF MapHas(cache, k) /\ now < MapGet(cache, k).expiry
                             THEN MapGet(cache, k).value ELSE Null]_vars

\* C8 amended: get(k) returns the stored value exactly when k is present and
\* now <= expiry, leaving the Map as it was; otherwise it returns null and, if
\* k was present (stale), removes k and nothing else.  set(k, v) followed at
\* once by get(k) returns v, the entry's expiry is the time of set plus the ttl,
\* and get(k) returns null as soon as more than the ttl has elapsed since set.
C8_GetFreshUpToExpiry ==
    /\ [][\A k \in CacheKeys :
            Get(k) =>
               IF MapHas(cache, k) /\ now <= MapGet(cache, k).expiry
                 THEN /\ lastOp'.ret = MapGet(cache, k).value
                      /\ cache' = cache
                 ELSE /\ lastOp'.ret = Null
                      /\ ~MapHas(cache', k)
                      /\ cache' = SelectSeq(cache, LAMBDA e : e.key # k)]_vars
    /\ [][\A k \in CacheKeys, v \in CacheValues, o \in TtlOverrides :
            Set(k, v, o) =>
               /\ MapHas(cache', k)
               /\ MapGet(cache', k).value = v
               /\ MapGet(cache', k).expiry =
                     now + 1000 * (IF o = << >> THEN cacheConfig.ttlSeconds ELSE o[1])
               /\ GetReturn(cache', k, now') = v
               /\ GetReturn(cache', k, MapGet(cache', k).expiry + 1) = Null]_vars

\* a get that returned the value at the very instant of expiry
C8_Witness ==
    /\ lastOp.op = "get"
    /\ lastOp.ret = "v1"
    /\ MapHas(cache, lastOp.key)
    /\ MapGet(cache, lastOp.key).expiry = now
    /\ now > 0

\* C9: size() never exceeds maxEntries (stated for capacities of at least one
\* entry).
C9_SizeWithinCapacity ==
    cacheConfig.maxEntries >= 1 => size <= cacheConfig.maxEntries

\* C10: set of a key that is not present, into a cache holding maxEntries
\* entries (maxEntries >= 1), removes exactly the earliest-inserted entry and
\* leaves the others, in order, followed by the new key.
C10_EvictsExactlyOldest ==
    [][\A k \in CacheKeys, v \in CacheValues, o \in TtlOverrides :
          (Set(k, v, o) /\ ~MapHas(cache, k) /\ cacheConfig.maxEntries >= 1
              /\ Len(cache) = cacheConfig.maxEntries) =>
             /\ Len(cache') = Len(cache)
             /\ ~MapHas(cache', cache[1].key)
             /\ SubSeq(cache', 1, Len(cache') - 1) = SubSeq(cache, 2, Len(cache))
             /\ cache'[Len(cache')].key = k
             /\ cache'[Len(cache')].value = v]_vars

\* key begins with the character sequence p
StartsWith(key, p) == Len(key) >= Len(p) /\ SubSeq(key, 1, Len(p)) = p

\* prefixes p without a regular-expression metacharacter whose pattern p + "*"
\* is among the patterns the model passes to invalidate
LiteralPrefixes ==
    { p \in { SubSeq(q, 1, Len(q) - 1) : q \in InvalidatePatterns \ { << >> } } :
        /\ p \o <<"*">> \in InvalidatePatterns
        /\ \A i \in 1..Len(p) : p[i] \notin {"*", ".", "$"} }

\* C11: invalidate(p + "*") removes every key that starts with p and leaves
\* every entry whose key does not start with p (key, value, expiry and order)
\* as it was.
C11_InvalidateRemovesExactlyPrefix ==
    [][\A p \in LiteralPrefixes :
          Invalidate(p \o <<"*">>) =>
             cache' = SelectSeq(cache, LAMBDA e : ~StartsWith(e.key, p))]_vars

\* the key id:R, written out
KeyOf(id, range) == id \o <<":">> \o range

\* C12: a read(id, R) through the cache decorator whose key id:R is cached and
\* unexpired returns the cached value, makes no inward call and leaves the
\* cache as it was; when id:R is absent or expired it makes exactly one inward
\* read of R and, once that resolves, stores the whole inward result under
\* id:R and returns it.
C12_ReadHitOrSingleFetch ==
    /\ [][\A t \in Tasks, id \in SheetIds, r \in Ranges :
            WrappedRead(t, id, r) =>
               IF MapHas(cache, KeyOf(id, r)) /\ now < MapGet(cache, KeyOf(id, r)).expiry
                 THEN /\ call'[t].pc = "returned"
                      /\ call'[t].ret = <<MapGet(cache, KeyOf(id, r)).value>>
                      /\ call'[t].inwardCalls = 0
                      /\ cache' = cache
               ELSE IF ~MapHas(cache, KeyOf(id, r))
                        \/ now > MapGet(cache, KeyOf(id, r)).expiry
                 THEN /\ call'[t].pc = "awaiting"
                      /\ call'[t].inwardCalls = 1
                      /\ call'[t].inwardArgs = <<r>>
               ELSE TRUE]_vars
    /\ [][\A t \in Tasks :
            WrappedReadResumes(t) =>
               /\ call'[t].pc = "returned"
               /\ call'[t].inwardCalls = 1
               /\ call'[t].ret = call[t].fetched
               /\ MapHas(cache', KeyOf(call[t].id, call[t].range))
               /\ <<MapGet(cache', KeyOf(call[t].id, call[t].range)).value>>
                     = call[t].fetched]_vars
    /\ [][\A t \in Tasks :
            (call[t].op = "read" /\ call'[t].op = "read"
                /\ call[t].pc \in {"awaiting", "resumable"}) =>
               call'[t].inwardCalls = call[t].inwardCalls]_vars

\* one task fetched and stored id:R with one inward read, and the other task's
\* read of the same id:R was then served from the cache with no inward call
C12_Witness ==
    \E t \in Tasks, u \in Tasks :
        /\ call[t].op = "read" /\ call[t].pc = "returned" /\ call[t].inwardCalls = 1
        /\ call[u].op = "read" /\ call[u].pc = "returned" /\ call[u].inwardCalls = 0
        /\ call[u].id = call[t].id /\ call[u].range = call[t].range
        /\ call[u].ret = call[t].ret

\* ranges without a regular-expression metacharacter
PlainRanges == { r \in Ranges : \A i \in 1..Len(r) : r[i] \notin {"*", ".", "$"} }

\* C13: once write(id, R, ...) has returned, a read(id, R) issued afterwards
\* never returns a value older than the one that write put in place, whatever
\* the interleaving of the calls (stated for ranges without metacharacters).
C13_NoStaleReadAfterWrite ==
    \A t \in Tasks :
        (call[t].op = "read" /\ call[t].pc = "returned"
            /\ call[t].range \in PlainRanges) =>
           VersionOf(call[t].ret[1]) >= call[t].floor

\* C14: a write or clear of (id, R) through the cache decorator that succeeds
\* removes exactly the entries whose key is id:R or begins with id:R, and leaves
\* every other entry (key, value, expiry and order) as it was.
C14_WriteRemovesExactlyItsRange ==
    [][\A t \in Tasks :
          ((WrappedWriteResumes(t) \/ WrappedClearResumes(t))
              /\ call'[t].pc = "returned") =>
             cache' = SelectSeq(cache,
                         LAMBDA e : ~StartsWith(e.key, KeyOf(call[t].id, call[t].range)))]_vars

\* C15: an append to spreadsheet id through the cache decorator that succeeds
\* removes every entry whose key has the form id:<range> and retains the
\* entries of every other spreadsheet id.
C15_AppendRemovesExactlyItsSpreadsheet ==
    [][\A t \in Tasks :
          (WrappedAppendResumes(t) /\ call'[t].pc = "returned") =>
             cache' = SelectSeq(cache,
                         LAMBDA e : ~StartsWith(e.key, call[t].id \o <<":">>))]_vars

\* id:range is held by the cache and served at the present time
IsCachedNow(id, range) ==
    /\ MapHas(cache, KeyOf(id, range))
    /\ now <= MapGet(cache, KeyOf(id, range)).expiry

\* C16: batchRead(id, ranges) through the cache decorator issues at most one
\* inward batchRead, whose range list is exactly the requested ranges that are
\* not cached, in request order; when every requested range is cached it
\* returns without any inward call.
C16_BatchReadFetchesOnlyUncached ==
    /\ [][\A t \in Tasks, id \in UpdatedIds, rs \in RangeLists :
            WrappedBatchRead(t, id, rs) =>
               LET missing == SelectSeq(rs, LAMBDA r : ~IsCachedNow(id, r))
               IN  IF missing = << >>
                     THEN /\ call'[t].pc = "returned"
                          /\ call'[t].inwardCalls = 0
                     ELSE /\ call'[t].pc = "awaiting"
                          /\ call'[t].inwardCalls = 1
                          /\ call'[t].inwardArgs = missing]_vars
    /\ [][\A t \in Tasks :
            (call[t].op = "batchRead" /\ call'[t].op = "batchRead"
                /\ call[t].pc \in {"awaiting", "resumable"}) =>
               /\ call'[t].inwardCalls = call[t].inwardCalls
               /\ call'[t].inwardArgs = call[t].inwardArgs]_vars

\* a batchRead of two ranges that found one of them cached and awaits an
\* inward batchRead of the other one only
C16_Witness ==
    \E t \in Tasks :
        /\ call[t].op = "batchRead"
        /\ call[t].pc = "awaiting"
        /\ Len(call[t].ranges) = 2
        /\ Len(call[t].cachedResults) = 1
        /\ call[t].inwardArgs = <<call[t].ranges[2]>>

\* C17: batchRead(id, ranges) through the cache decorator returns exactly one
\* result per requested range, in the caller's order, and every freshly
\* fetched range is stored under its own key, so that a read(id, r) of it made
\* right after the batchRead returned is a cache hit.
C17_BatchReadOneResultPerRange ==
    /\ [](\A t \in Tasks :
            (call[t].op = "batchRead" /\ call[t].pc = "returned") =>
               /\ Len(call[t].ret) = Len(call[t].ranges)
               /\ \A i \in 1..Len(call[t].ranges) :
                     call[t].ret[i].range = call[t].ranges[i])
    /\ [][\A t \in Tasks :
            WrappedBatchReadResumes(t) =>
               \A i \in 1..Len(call[t].inwardArgs) :
                  GetReturn(cache', KeyOf(call[t].id, call[t].inwardArgs[i]), now')
                     = call[t].fetched[i].values]_vars

\* number of recorded timestamps in the windowMs interval that ends at the
\* i-th recorded timestamp
RecordedInWindowEndingAt(i) ==
    Cardinality({ j \in 1..Len(requestTimes) :
                    /\ requestTimes[j] > requestTimes[i] - windowMs
                    /\ requestTimes[j] <= requestTimes[i] })

\* C20: for any interleaving of concurrent execute calls on one limiter, the
\* number of recorded request timestamps lying within any windowMs interval
\* never exceeds maxRequestsPerWindow.
C20_WindowNeverExceeded ==
    \A i \in 1..Len(requestTimes) : RecordedInWindowEndingAt(i) <= maxRequestsPerWindow

\* the failures of LimiterFailures that carry the rate-limit code 429
RateLimitFailures == { e \in LimiterFailures : "429" \in {e.code, e.status} }

\* C18 as stated: after an execute whose operation fails with a rate-limit
\* error, baseDelay is strictly greater than it was before that failure.
C18_RateLimitStrictlyIncreasesDelay ==
    [][\A t \in Tasks, e \in RateLimitFailures :
          FnRejects(t, e) => baseDelay' > baseDelay]_vars

\* C18 amended: after an execute whose operation fails with a rate-limit
\* error, baseDelay is the smaller of its previous value plus 200 and the
\* ceiling 1000: strictly greater than before when it was below 1000, and
\* still 1000 when it already was 1000.
C18_RateLimitIncreasesDelayUpToCeiling ==
    [][\A t \in Tasks, e \in RateLimitFailures :
          FnRejects(t, e) =>
             /\ baseDelay' = (IF baseDelay + 200 <= 1000 THEN baseDelay + 200 ELSE 1000)
             /\ baseDelay < 1000 => baseDelay' > baseDelay
             /\ baseDelay = 1000 => baseDelay' = 1000
             /\ exec'[t].pc = "raised"
             /\ exec'[t].error = <<e>>]_vars

\* a rate-limit failure that arrived with baseDelay at the ceiling: the sixth in
\* a row
C18_Witness ==
    /\ exec[1].pc = "raised"
    /\ exec[1].error # << >>
    /\ exec[1].error[1] \in RateLimitFailures
    /\ failures.rateLimit = 6
    /\ streak = 0
    /\ baseDelay = 1000

\* C19: each successful execute leaves baseDelay no larger than before (10 ms
\* less, floored at 0); after n successes with no rate-limit failure in between
\* baseDelay is at most 1000 - 10 n, hence 0 after 100 of them; and baseDelay
\* grows only through a rate-limit failure, so once 0 it stays 0 until one.
C19_SuccessRelievesDelayToZero ==
    /\ [][\A t \in Tasks :
            FnResolves(t) =>
               /\ baseDelay' <= baseDelay
               /\ baseDelay' = (IF baseDelay >= 10 THEN baseDelay - 10 ELSE 0)]_vars
    /\ [](/\ baseDelay >= 0
          /\ baseDelay <= 1000
          /\ streak < 100 => baseDelay + 10 * streak <= 1000
          /\ streak >= 100 => baseDelay = 0)
    /\ [][baseDelay' > baseDelay =>
            /\ failures'.rateLimit = failures.rateLimit + 1
            /\ streak' = 0]_vars

\* 99 successes in a row after baseDelay had reached the ceiling 1000: one more
\* success is needed to bring baseDelay to 0
C19_Witness ==
    /\ streak = 99
    /\ baseDelay = 10
    /\ exec[1].pc = "returned"

\* task t's acquire returns in this step
AcquireReturns(t) ==
    /\ acq'[t] # acq[t]
    /\ acq'[t].pc \in {"acquired", "calling"}

\* the balance of the bucket at time t: what it held at the last refill plus
\* refillRate per second since then, at most maxTokens
BalanceAt(t) ==
    LET grown == tokens + (t - lastRefill) * bucketConfig.refillRate
        full == bucketConfig.maxTokens * TokenUnit
    IN  IF grown > full THEN full ELSE grown

\* C21: whatever the interleaving of the concurrent acquire calls on one
\* bucket, acquire(n) returns only in a step at whose time the refilled balance
\* is at least n, that step deducts exactly n, and the balance is never negative
C21_AcquireReturnsOnlyWhenCovered ==
    /\ [](tokens >= 0)
    /\ [][\A t \in Tasks :
            AcquireReturns(t) =>
                /\ BalanceAt(now') >= acq'[t].n * TokenUnit
                /\ tokens' = BalanceAt(now') - acq'[t].n * TokenUnit]_vars

\* both tasks have acquired, the one that called first after it had to wait
C21_Witness ==
    /\ acq[1].pc = "acquired"
    /\ acq[2].pc = "acquired"
    /\ acq[1].waits > 0
    /\ acq[2].id > acq[1].id
    /\ tokens < TokenUnit

\* how much later getAvailableTokens may be called, in milliseconds
IdleTimes == {0, 1, 1000, 86400000}

\* C22: in every reachable state and at every later time, however long the
\* bucket stays idle, getAvailableTokens() returns at most maxTokens
C22_AvailableNeverAboveMax ==
    /\ \A idle \in IdleTimes :
          AvailableTokens(now + idle) <= bucketConfig.maxTokens * TokenUnit
    /\ peeked # << >> => peeked[1].value <= bucketConfig.maxTokens * TokenUnit

\* getAvailableTokens() has returned after an idle time that would have
\* filled the bucket beyond maxTokens
C22_Witness ==
    /\ peeked # << >>
    /\ now - lastRefill >= 1000
    /\ tokens + (now - lastRefill) * bucketConfig.refillRate
          > bucketConfig.maxTokens * TokenUnit
    /\ peeked[1].value = bucketConfig.maxTokens * TokenUnit

\* C23: getAvailableTokens() changes neither tokens nor lastRefill, and it
\* returns the balance acquire's refill step would compute at the same instant
C23_PeekIsPureAndEqualsRefill ==
    [][peeked' # << >> =>
          /\ tokens' = tokens
          /\ lastRefill' = lastRefill
          /\ peeked'[1].at = now
          /\ peeked'[1].value = RefilledTokens(now)]_vars

\* getAvailableTokens() has returned a balance that is above the stored one
\* and below maxTokens
C23_Witness ==
    /\ peeked # << >>
    /\ peeked[1].value > tokens
    /\ peeked[1].value < bucketConfig.maxTokens * TokenUnit

\* the number of recorded requests whose outcome was `success`
Outcomes(success) == Len(SelectSeq(recorded, LAMBDA r : r.success = success))

\* C24: after k recorded successes and m recorded failures since construction
\* or the last reset, k + m > 0, the successRate getSummary() returns is
\* k / (k + m), whatever was returned before
C24_SuccessRateIsShareOfSuccesses ==
    (collectorOp.op = "getSummary" /\ recorded # << >>) =>
        LET k == Outcomes(TRUE)
            m == Outcomes(FALSE)
            rate == collectorOp.ret[1].successRate
        IN  /\ rate.den # 0
            /\ rate.num * (k + m) = k * rate.den

\* getSummary() has returned after more than 100 requests of both outcomes
C24_Witness ==
    /\ collectorOp.op = "getSummary"
    /\ Outcomes(TRUE) > 100
    /\ Outcomes(FALSE) = 2

\* the durations of the latest min(N, 100) recorded requests
LatestDurations ==
    LET N == Len(recorded)
        c == IF N < 100 THEN N ELSE 100
    IN  [i \in 1..c |-> recorded[N - c + i].duration]

\* C25: after any sequence of recordRequest calls since the last reset,
\* averageLatency is the arithmetic mean of the latest min(N, 100) recorded
\* durations, so older samples have no influence
C25_AverageIsMeanOfLatestSamples ==
    recorded # << >> =>
        /\ metrics.averageLatency.den # 0
        /\ metrics.averageLatency.num * Len(LatestDurations)
              = SumSeq(LatestDurations) * metrics.averageLatency.den

\* 103 requests are recorded, the first two of them with shorter durations
\* than the latest hundred, and the average is that of the latest hundred
C25_Witness ==
    /\ Len(recorded) = 103
    /\ recorded[1].duration = 10
    /\ recorded[2].duration = 10
    /\ metrics.averageLatency.num = SteadyDuration * metrics.averageLatency.den

\* no counter of the collector is smaller after the step than before it
NoCounterDecreases ==
    /\ metrics'.totalRequests >= metrics.totalRequests
    /\ metrics'.successfulRequests >= metrics.successfulRequests
    /\ metrics'.failedRequests >= metrics.failedRequests
    /\ metrics'.retryCount >= metrics.retryCount
    /\ metrics'.rateLimitHits >= metrics.rateLimitHits
    /\ \A m \in DOMAIN metrics.requestsByMethod :
          /\ m \in DOMAIN metrics'.requestsByMethod
          /\ metrics'.requestsByMethod[m] >= metrics.requestsByMethod[m]
    /\ \A c \in DOMAIN metrics.errorsByCode :
          /\ c \in DOMAIN metrics'.errorsByCode
          /\ metrics'.errorsByCode[c] >= metrics.errorsByCode[c]

\* C26: no recordRequest and no recordRateLimitHit decreases totalRequests,
\* successfulRequests, failedRequests, retryCount, rateLimitHits or a
\* per-method or per-error-code counter; the only step after which one of
\* them is smaller is reset(), which returns all of them to zero or empty
C26_CountersOnlyGrowBetweenResets ==
    [][\/ NoCounterDecreases
       \/ (collectorOp'.op = "reset" /\ metrics' = NoMetrics)]_vars

\* requests of both methods, failures with two error codes, retries and
\* rate-limit hits are counted, the latest call being recordRateLimitHit
C26_Witness ==
    /\ collectorOp.op = "recordRateLimitHit"
    /\ DOMAIN metrics.requestsByMethod = {"read", "write"}
    /\ DOMAIN metrics.errorsByCode = {"429", "500"}
    /\ metrics.retryCount > 0
    /\ metrics.rateLimitHits = 2

\* the number of times the call through the withMetrics client has invoked
\* the wrapped operation so far
InvocationsStarted ==
    wrapped.invocations + (IF wrapped.pc = "calling" /\ pc # "idle" THEN 1 ELSE 0)

\* the failure the wrapped operation raised is a GoogleSheetsError with
\* isRetryable = true
RaisedRetryable(error) ==
    /\ error # << >>
    /\ error[1].name = "GoogleSheetsError"
    /\ error[1].isRetryable = TRUE

\* C27: whatever maxAttempts the core client has, a call through withMetrics
\* invokes the wrapped operation at most 3 times; it suspends for a further
\* invocation only after a failure that is a GoogleSheetsError with
\* isRetryable = true, for 1000 * k ms after the k-th failure; and it
\* re-invokes only once that wait is over
C27_AtMostThreeInvocationsLinearBackoff ==
    /\ [](InvocationsStarted <= 3)
    /\ [][(wrapped.pc = "calling" /\ wrapped'.pc = "sleeping") =>
              /\ RaisedRetryable(raised)
              /\ wrapped'.wakeAt = now' + 1000 * wrapped'.invocations]_vars
    /\ [][(wrapped.invocations > 0 /\ pc = "idle" /\ pc' # "idle") =>
              /\ RaisedRetryable(wrapped.lastError)
              /\ wrapped.delays[wrapped.invocations] = 1000 * wrapped.invocations
              /\ now >= wrapped.wakeAt]_vars

\* a call through the withMetrics client of a core client with maxAttempts = 1
\* has failed after 3 invocations, which it made 1000 and 2000 ms apart
C27_Witness ==
    /\ retryConfig.maxAttempts = 1
    /\ wrapped.pc = "raised"
    /\ wrapped.invocations = 3
    /\ wrapped.delays = <<1000, 2000>>

\* the call through the withMetrics client settles in this step
WrappedCallSettles ==
    /\ wrapped'.pc \in {"returned", "raised"}
    /\ wrapped.pc \notin {"returned", "raised"}

\* C28: a call through withMetrics produces exactly one recordRequest, in the
\* step in which it settles: totalRequests grows by 1 then and in no other
\* step, success is true iff the call returned a result, and retries is the
\* number of invocations of the wrapped operation minus one
C28_OneRecordPerLogicalCall ==
    [][/\ WrappedCallSettles =>
            /\ Len(recorded') = Len(recorded) + 1
            /\ metrics'.totalRequests = metrics.totalRequests + 1
            /\ recorded'[Len(recorded')].success = (wrapped'.pc = "returned")
            /\ recorded'[Len(recorded')].retries = wrapped'.invocations - 1
       /\ ~WrappedCallSettles =>
            /\ recorded' = recorded
            /\ metrics'.totalRequests = metrics.totalRequests]_vars

\* two calls have settled: one failed after 3 invocations, one returned a
\* result from its second invocation
C28_Witness ==
    /\ metrics.totalRequests = 2
    /\ wrapped.pc = "returned"
    /\ wrapped.invocations = 2
    /\ recorded[1].success = FALSE
    /\ recorded[1].retries = 2
    /\ recorded[2].success = TRUE
    /\ recorded[2].retries = 1

PlainDecoratorsPropagate ==
    /\ (call[Caller].pc = "raised" /\ call'[Caller] # call[Caller]) =>
            callsStarted' = callsStarted + 1
    /\ (call'[Caller].pc = "raised" /\ call[Caller].pc # "raised") =>
            /\ call[Caller].pc = "awaiting"
            /\ call'[Caller].inwardCalls = 1
            /\ call'[Caller].error = "Error"
    /\ (exec[Caller].pc = "raised" /\ exec'[Caller] # exec[Caller]) =>
            executes' = executes + 1
    /\ (exec'[Caller].pc = "raised" /\ exec[Caller].pc # "raised") =>
            /\ exec[Caller].pc = "calling"
            /\ exec'[Caller].error # << >>
            /\ exec'[Caller].error[1] \in LimiterFailures
    /\ (acq[Caller].pc = "raised" /\ acq'[Caller] # acq[Caller]) =>
            acquires' = acquires + 1
    /\ (acq'[Caller].pc = "raised" /\ acq[Caller].pc # "raised") =>
            /\ acq[Caller].pc = "calling"
            /\ acq'[Caller].error # << >>
            /\ acq'[Caller].error[1] \in BucketFailures

\* the wrapped operation of the withMetrics client has thrown and the
\* decorator's catch block runs in this step
MetricsDecoratorCatches ==
    /\ wrapped.pc = "calling"
    /\ pc = "raised"
    /\ pc' # "raised"

\* C30 (as stated): only the core retry engine re-invokes after a failure; a
\* failure that the wrapped client returns to the cache, adaptive-limiter,
\* token-bucket or metrics decorator is never suppressed and retried by that
\* decorator, and is re-raised to the caller as the same, unchanged error
C30_OnlyCoreEngineReinvokes ==
    [][/\ PlainDecoratorsPropagate
       /\ MetricsDecoratorCatches =>
            /\ wrapped'.pc = "raised"
            /\ wrapped'.error = raised
            /\ wrapped'.invocations = 1]_vars

\* C30 (amended): the cache, adaptive-limiter and token-bucket decorators
\* never suppress and retry a failure of the wrapped client and re-raise it
\* unchanged; the metrics decorator suppresses a failure and re-invokes only
\* if it is a GoogleSheetsError with isRetryable = true and fewer than 3
\* invocations have been made, and otherwise re-raises that failure unchanged
C30_OnlyMetricsDecoratorReinvokes ==
    [][/\ PlainDecoratorsPropagate
       /\ MetricsDecoratorCatches =>
            IF RaisedRetryable(raised) /\ wrapped'.invocations < 3
              THEN wrapped'.pc = "sleeping"
              ELSE /\ wrapped'.pc = "raised"
                   /\ wrapped'.error = raised]_vars

\* a call through the withMetrics client has re-raised, unchanged, the
\* retryable GoogleSheetsError of its third invocation
C30_Witness ==
    /\ wrapped.pc = "raised"
    /\ wrapped.invocations = 3
    /\ RaisedRetryable(wrapped.error)
    /\ wrapped.error = wrapped.lastError

\* the category of a classified error, by the priority table of the
\* specification: 429, 403, 404, else transient if retryable, else unknown
CategoryOf(e) ==
    IF e.code = "429" THEN "RateLimit"
    ELSE IF e.code = "403" THEN "Permission"
    ELSE IF e.code = "404" THEN "NotFound"
    ELSE IF e.code \in SpecRetryableSet THEN "Transient"
    ELSE "Unknown"

\* C31: getUserMessage() returns a string determined only by the error's
\* category: any error of the same category built from another raw failure,
\* whatever its message text, yields the same string
C31_UserMessageFixedByCategory ==
    userMessage # << >> =>
        \A other \in RawFailures :
            CategoryOf(GoogleSheetsError(other)) = CategoryOf(classified[1]) =>
                getUserMessage(GoogleSheetsError(other)) = userMessage[1]

\* C33: for every raw failure shape, also one that carries a top-level code
\* and a response status, the retry engine's isRetryable holds of the failure
\* exactly when the GoogleSheetsError built from it has isRetryable = true
C33_EngineAndErrorAgree ==
    classified # << >> =>
        isRetryable(rawInput) = classified[1].isRetryable

\* C40: with maxAttempts = 0 a core operation that has settled made no
\* transport call and rejected with a GoogleSheetsError
C40_ZeroAttemptsRejectsWithGoogleSheetsError ==
    (retryConfig.maxAttempts = 0 /\ pc # "idle") =>
        /\ inward = 0
        /\ pc = "raised"
        /\ raised # << >>
        /\ raised[1].name = "GoogleSheetsError"

\* C36: set(k, v) on a key that is already present replaces that key's value
\* and expiry and removes no other key, also when the cache holds maxEntries
\* entries; the number of entries is the same before and after
C36_SetOfPresentKeyKeepsOthers ==
    [][\A k \in CacheKeys, v \in CacheValues, o \in TtlOverrides :
          (Set(k, v, o) /\ MapHas(cache, k)) =>
             /\ Len(cache') = Len(cache)
             /\ MapHas(cache', k)
             /\ MapGet(cache', k).value = v
             /\ MapGet(cache', k).expiry = now + TtlOf(o) * 1000
             /\ \A i \in 1..Len(cache) :
                   cache[i].key # k =>
                      \E j \in 1..Len(cache') : cache'[j] = cache[i]]_vars

\* the failures of LimiterFailures that carry no code 429
OtherFailures == { e \in LimiterFailures : "429" \notin {e.code, e.status} }

\* C39: when the operation passed to execute fails with an error that is not
\* a rate-limit error, successRate, baseDelay and the recorded timestamps are
\* unchanged and the error is raised; a timestamp is added to the sliding
\* window only by a success.
C39_OtherFailureLeavesLimiterUnchanged ==
    /\ [][\A t \in Tasks, e \in OtherFailures :
            FnRejects(t, e) =>
               /\ successRate' = successRate
               /\ baseDelay' = baseDelay
               /\ requestTimes' = requestTimes
               /\ exec'[t].pc = "raised"
               /\ exec'[t].error = <<e>>]_vars
    /\ [][(\E i \in 1..Len(requestTimes') :
              \A j \in 1..Len(requestTimes) : requestTimes[j] # requestTimes'[i])
          \/ Len(requestTimes') > Len(requestTimes)
            => \E t \in Tasks : FnResolves(t)]_vars

\* a failure that is not a rate-limit error, raised after one success and one
\* rate-limit failure: the delay, the rate and the window are as that
\* rate-limit failure left them
C39_Witness ==
    /\ exec[1].pc = "raised"
    /\ exec[1].error # << >>
    /\ exec[1].error[1] \in OtherFailures
    /\ failures.other = 1
    /\ baseDelay = 200
    /\ successRate = 500
    /\ Len(requestTimes) = 1

\* the sum of the counts of a Map from keys to counts
RECURSIVE SumOfCounts(_)
SumOfCounts(map) ==
    IF DOMAIN map = {} THEN 0
    ELSE LET k == CHOOSE key \in DOMAIN map : TRUE
         IN  map[k] + SumOfCounts([j \in DOMAIN map \ {k} |-> map[j]])

\* C37: in every reachable state of a MetricsCollector totalRequests =
\* successfulRequests + failedRequests = the sum of the requestsByMethod
\* counts, and the sum of the errorsByCode counts is at most failedRequests
C37_CountersAddUp ==
    /\ metrics.totalRequests = metrics.successfulRequests + metrics.failedRequests
    /\ metrics.totalRequests = SumOfCounts(metrics.requestsByMethod)
    /\ SumOfCounts(metrics.errorsByCode) <= metrics.failedRequests

\* two requests were recorded, a success that was passed an error and a
\* failure without one, and more successes after them: two methods are
\* counted and no error code is
C37_Witness ==
    /\ metrics.totalRequests = 4
    /\ metrics.failedRequests = 1
    /\ DOMAIN metrics.requestsByMethod = {"read", "append"}
    /\ metrics.requestsByMethod["append"] = 1
    /\ DOMAIN metrics.errorsByCode = {}
    /\ collectorOp.op = "recordRequest"

\* the wrapped methods of withCache
CachedOps == {"read", "batchRead", "write", "append", "clear"}

\* the Map m2 holds no entry that m1 lacks, and every entry of m1 that is not
\* expired at time t
NothingAddedNoFreshEntryLost(m1, m2, t) ==
    /\ \A j \in 1..Len(m2) : \E i \in 1..Len(m1) : m1[i] = m2[j]
    /\ \A i \in 1..Len(m1) :
          ~IsStale(m1[i], t) => \E j \in 1..Len(m2) : m2[j] = m1[i]

\* C34: when the inward call of a cache-decorated read, batchRead, write,
\* append or clear fails, the error propagates to the caller and the call
\* has left the cache as it was: on its way to the inward call it added no
\* entry and removed no unexpired one, and the failure itself changes nothing.
C34_FailedInwardCallLeavesCache ==
    /\ [][\A t \in Tasks :
            (call'[t] # call[t] /\ call'[t].pc = "awaiting"
                /\ call'[t].op \in CachedOps) =>
               NothingAddedNoFreshEntryLost(cache, cache', now)]_vars
    /\ [][\A t \in Tasks :
            (TransportFails(t) /\ call[t].op \in CachedOps) =>
               /\ cache' = cache
               /\ call'[t].pc = "raised"
               /\ call'[t].error = "Error"]_vars

\* the inward call of a write failed while the cache held an unexpired entry
\* for the written range: the entry is still there
C34_Witness ==
    /\ call[2].pc = "raised"
    /\ call[2].op = "write"
    /\ call[2].error = "Error"
    /\ MapHas(cache, CacheKey(call[2].id, call[2].range))
    /\ ~IsStale(MapGet(cache, CacheKey(call[2].id, call[2].range)), now)

\* C35: batchWrite, batchClear and getSpreadsheet called through the cache
\* decorator reach the wrapped client and change no cache entry, so a read of
\* a range whose entry is not expired is served from the cache, also after
\* that range was batch-written or batch-cleared.
C35_PassedThroughLeavesCache ==
    /\ [][\A t \in Tasks :
            (call'[t] # call[t] /\ call'[t].op \in PassedThroughOps) =>
               /\ cache' = cache
               /\ call'[t].inwardCalls = 1
               /\ call'[t].pc \in {"awaiting", "returned", "raised"}]_vars
    /\ [][\A t \in Tasks, id \in SheetIds, r \in Ranges :
            (WrappedRead(t, id, r) /\ MapHas(cache, CacheKey(id, r))
                /\ ~IsStale(MapGet(cache, CacheKey(id, r)), now)) =>
               /\ call'[t].pc = "returned"
               /\ call'[t].inwardCalls = 0
               /\ call'[t].ret = << MapGet(cache, CacheKey(id, r)).value >>
               /\ cache' = cache]_vars

\* a batchWrite of a range has returned and a later read of that range was
\* served the older content from the cache
C35_Witness ==
    /\ call[1].pc = "returned"
    /\ call[1].op = "batchWrite"
    /\ call[2].pc = "returned"
    /\ call[2].op = "read"
    /\ call[2].inwardCalls = 0
    /\ call[2].range = call[1].range
    /\ call[2].id = call[1].id
    /\ VersionOf(call[2].ret[1]) < sheet[CacheKey(call[2].id, call[2].range)]
    /\ callsStarted = 3

\* C38: of the inward calls of a withTokenBucketRateLimit client, the number
\* started in any interval of T seconds is at most maxTokens + refillRate * T
\* (for every two starts, the calls from the one to the other, both counted,
\* fit that bound for the time between them); each inward call starts in the
\* step that deducts exactly one token from the refilled balance, and a
\* failing inward call gives no token back.
C38_InwardCallsWithinBucketRate ==
    /\ [](\A i \in 1..Len(inwardStarts), j \in 1..Len(inwardStarts) :
             i <= j =>
                (j - i + 1) * TokenUnit <=
                    bucketConfig.maxTokens * TokenUnit
                        + bucketConfig.refillRate * (inwardStarts[j] - inwardStarts[i]))
    /\ [][\A t \in Tasks :
            (acq[t].pc # "calling" /\ acq'[t].pc = "calling") =>
               /\ tokens' = RefilledTokens(now') - TokenUnit
               /\ tokens' >= 0
               /\ inwardStarts' = Append(inwardStarts, now')]_vars
    /\ [][Len(inwardStarts') > Len(inwardStarts) =>
            \E t \in Tasks : acq[t].pc # "calling" /\ acq'[t].pc = "calling"]_vars
    /\ [][\A t \in Tasks, error \in BucketFailures :
            BucketInwardRejects(t, error) =>
               /\ tokens' = tokens
               /\ lastRefill' = lastRefill
               /\ acq'[t].pc = "raised"]_vars

\* three inward calls were started through a bucket of one token refilled at
\* three tokens a second, one of them failed, and the third started 668 ms
\* after the first, where the bound 1 + 3 * 0.668 allows three calls
C38_Witness ==
    /\ bucketConfig = [maxTokens |-> 1, refillRate |-> 3]
    /\ Len(inwardStarts) = 3
    /\ inwardStarts[3] - inwardStarts[1] = 668
    /\ \E t \in Tasks : acq[t].pc = "raised"

\* C32: with refillRate > 0 and finitely many calls of acquire(n), each with
\* n <= maxTokens, every acquire that has to wait returns in the end, under
\* fair scheduling of timers (and no timer of the model is held back by the
\* bound on its clock).
C32_EveryAcquireReturns ==
    /\ [](\A t \in Tasks : acq[t].pc = "waiting" => acq[t].wakeAt <= MaxFairNow)
    /\ \A t \in Tasks : (acq[t].pc = "waiting") ~> (acq[t].pc = "acquired")

\* an acquire of two tokens has returned after its timer had fired and found
\* the balance short again
C32_Witness ==
    /\ acq[1].pc = "acquired"
    /\ acq[1].n = 2
    /\ acq[1].waits >= 2
    /\ acq[2].pc = "acquired"
    /\ acq[2].waits >= 1

====
